---- MODULE Spec2Model ----
(***************************************************************************)
(* A model of the command handlers of vte's vteseq.cc and of the Sequence  *)
(* view of parser-glue.hh.  The terminal (VteTerminalPrivate) is a record  *)
(* of its member fields; every handler is an operator from a terminal to   *)
(* the terminal it leaves, and every action applies one handler to the     *)
(* state variables, which are the terminal's fields.                       *)
(***************************************************************************)
EXTENDS Integers, Sequences, FiniteSets, TLC

VARIABLES
    m_screen,               \* which VteScreen m_screen points to
    m_normal_screen,        \* VteScreen: row_data, insert_delta, cursor, saved
    m_alternate_screen,
    m_origin_mode,
    m_scrolling_restricted,
    m_scrolling_region,     \* [start, end], screen-relative rows
    m_insert_mode,
    m_sendrecv_mode,
    m_autowrap,
    m_reverse_mode,
    m_cursor_mode,
    m_keypad_mode,
    m_mouse_tracking_mode,
    m_cursor_visible,
    m_deccolm_mode,
    m_focus_tracking_mode,
    m_mouse_xterm_extension,
    m_alternate_screen_scroll,
    m_mouse_urxvt_extension,
    m_meta_sends_escape,
    m_bracketed_paste_mode,
    m_tabstops,             \* the hash table of tab stops, or nullptr
    m_dec_saved,            \* the "DEC saved settings" hash table
    m_defaults,             \* live SGR attributes
    m_color_defaults,       \* erase template
    m_fill_defaults,        \* fill template
    resize_window,          \* columns of the last "resize-window" signal, 0 if none
    m_outgoing,             \* what feed_child() wrote and the child has not read
    m_allow_hyperlink,
    m_hyperlink_auto_id,
    m_palette,              \* the colours set by escape sequences, by index
    op,                     \* the sequence dispatched last: [cmd, seq]
    tokeniser,              \* a StringTokeniser and the const_iterator that walks it
    mark,                   \* what was there when the cursor or a mode was last saved
    focus                   \* the DEC private modes the child uses in a run

vars == << m_screen, m_normal_screen, m_alternate_screen, m_origin_mode,
           m_scrolling_restricted, m_scrolling_region, m_insert_mode,
           m_sendrecv_mode, m_autowrap, m_reverse_mode, m_cursor_mode,
           m_keypad_mode, m_mouse_tracking_mode, m_cursor_visible,
           m_deccolm_mode, m_focus_tracking_mode, m_mouse_xterm_extension,
           m_alternate_screen_scroll, m_mouse_urxvt_extension,
           m_meta_sends_escape, m_bracketed_paste_mode, m_tabstops, m_dec_saved,
           m_defaults, m_color_defaults, m_fill_defaults, resize_window,
           m_outgoing, m_allow_hyperlink, m_hyperlink_auto_id, m_palette,
           op, tokeniser, mark, focus >>

(***************************************************************************)
(* Bounds of the model.                                                    *)
(***************************************************************************)
\* The size of the screen (the widget's m_row_count x m_column_count).
m_row_count == 4
m_column_count == 3
\* clear_screen() moves insert_delta up by a screen each time: the handlers
\* that call it are not taken once insert_delta has passed this row.
MaxInsertDelta == 8
\* The child prints onto a screen that shows fewer characters than this.
MaxTyped == 1

(***************************************************************************)
(* Program constants.                                                      *)
(***************************************************************************)
\* The largest value a parameter holds (a 16 bit value).
VTE_SEQ_ARG_VALUE_MASK == 65535
\* Colour indices: the palette, then the default foreground and background.
VTE_LEGACY_COLORS_OFFSET == 0
VTE_COLOR_BRIGHT_OFFSET == 8
VTE_DEFAULT_FG == 256
VTE_DEFAULT_BG == 257

(***************************************************************************)
(* glib / std helpers.                                                     *)
(***************************************************************************)
\* CLAMP(x, low, high) of glib.
CLAMP(x, low, high) == IF x > high THEN high ELSE IF x < low THEN low ELSE x

MIN(a, b) == IF a < b THEN a ELSE b

MAX(a, b) == IF a > b THEN a ELSE b

\* std::min(std::max(v, min_v), max_v)
MinMax(v, min_v, max_v) == MIN(MAX(v, min_v), max_v)

(***************************************************************************)
(* Arguments: [v, nf].  v = -1 is a default (unset) argument, otherwise v  *)
(* is its value 0..0xFFFF; nf is the non-final flag (a ':' follows).       *)
(***************************************************************************)
Arg(v, nf) == [v |-> v, nf |-> nf]

\* A final parameter (followed by ';' or by the end of the sequence).
F(v) == Arg(v, FALSE)

\* A non-final parameter (followed by ':').
N(v) == Arg(v, TRUE)

vte_seq_arg_default(arg) == arg.v = -1

vte_seq_arg_nonfinal(arg) == arg.nf

vte_seq_arg_value(arg, default_v) == IF arg.v = -1 THEN default_v ELSE arg.v

vte_seq_arg_value_final(arg, default_v) ==
    IF arg.v # -1 /\ ~arg.nf THEN arg.v ELSE default_v

(***************************************************************************)
(* unsigned int is 32 bits wide.  An index is held as the integer with the *)
(* same 32 bits in two's complement, so UINT_MAX is -1 and the values from *)
(* 2^31 up are the negative ones; order, increment and difference are the  *)
(* unsigned ones, modulo 2^32.                                             *)
(***************************************************************************)
INT_MAX == 2147483647

INT_MIN == -2147483647 - 1

UINT_MAX == -1

\* a < b as unsigned int.
ult(a, b) == IF (a >= 0) = (b >= 0) THEN a < b ELSE b < 0

\* a <= b as unsigned int.
ule(a, b) == a = b \/ ult(a, b)

\* ++a as unsigned int.
uinc(a) == IF a = INT_MAX THEN INT_MIN ELSE a + 1

\* a - b as unsigned int, computed on 16-bit halves.
usub(a, b) ==
    LET lo == (a % 65536) - (b % 65536)
        borrow == IF lo < 0 THEN 1 ELSE 0
        hi == (a \div 65536) - (b \div 65536) - borrow
    IN  (((hi + 32768) % 65536) - 32768) * 65536 + lo + borrow * 65536

(***************************************************************************)
(* vte::parser::Sequence: seq is the args array, args[idx] is seq[idx+1].  *)
(***************************************************************************)
size(seq) == Len(seq)

param(seq, idx, default_v) ==
    IF ult(idx, size(seq)) THEN vte_seq_arg_value(seq[idx + 1], default_v) ELSE default_v

\* param with the two bounds applied in the other order.
param_minmax_swapped(seq, idx, default_v, min_v, max_v) ==
    MAX(MIN(param(seq, idx, default_v), max_v), min_v)

param_minmax(seq, idx, default_v, min_v, max_v) ==
    MinMax(param(seq, idx, default_v), min_v, max_v)

param_nonfinal(seq, idx) ==
    IF ult(idx, size(seq)) THEN vte_seq_arg_nonfinal(seq[idx + 1]) ELSE FALSE

param_default(seq, idx) ==
    IF ult(idx, size(seq)) THEN vte_seq_arg_default(seq[idx + 1]) ELSE TRUE

\* next() that goes to the next parameter, not to the next block.
next_parameter(seq, idx) == uinc(idx)

RECURSIVE next(_, _)
next(seq, idx) ==
    IF param_nonfinal(seq, idx) THEN next(seq, uinc(idx)) ELSE uinc(idx)

\* collect1 that takes the value of a parameter followed by ':' as well.
collect1_nonfinal(seq, idx, default_v) == param(seq, idx, default_v)

collect1(seq, idx, default_v) ==
    IF ult(idx, size(seq)) THEN vte_seq_arg_value_final(seq[idx + 1], default_v) ELSE default_v

collect1_minmax(seq, idx, default_v, min_v, max_v) ==
    MinMax(collect1(seq, idx, default_v), min_v, max_v)

\* collect(start_idx, {&a, &b}, default_v): the two values and the result.
collect2(seq, start_idx, default_v) ==
    LET idx1 == next(seq, start_idx)
        idx2 == next(seq, idx1)
    IN  [a  |-> param(seq, start_idx, default_v),
         b  |-> param(seq, idx1, default_v),
         ok |-> usub(idx2, start_idx) = 2]

(***************************************************************************)
(* Cells, rows and the two screens.                                        *)
(***************************************************************************)
\* VteCellAttr with everything unset and the default colours.
basic_attr ==
    [bold |-> FALSE, dim |-> FALSE, italic |-> FALSE, underline |-> 0,
     blink |-> FALSE, reverse |-> FALSE, invisible |-> FALSE,
     strikethrough |-> FALSE, overline |-> FALSE,
     fore |-> VTE_DEFAULT_FG, back |-> VTE_DEFAULT_BG, deco |-> VTE_DEFAULT_FG,
     columns |-> 1, fragment |-> FALSE, hyperlink_idx |-> 0]

\* basic_cell: the empty cell.
basic_cell == [c |-> 0, attr |-> basic_attr]

\* attr.copy_colors(other)
copy_colors(attr, other) ==
    [attr EXCEPT !.fore = other.fore, !.back = other.back, !.deco = other.deco]

\* A VteScreen after construction: an empty ring, the cursor and the saved
\* cursor at home.
InitScreen ==
    [row_data     |-> << >>,
     hyperlinks   |-> << >>,
     insert_delta |-> 0,
     cursor       |-> [row |-> 0, col |-> 0],
     saved        |-> [cursor |-> [row |-> 0, col |-> 0],
                       origin_mode |-> FALSE,
                       defaults |-> basic_cell,
                       color_defaults |-> basic_cell,
                       fill_defaults |-> basic_cell]]

(***************************************************************************)
(* The terminal as a record of the state variables.                        *)
(***************************************************************************)
T ==
    [m_screen |-> m_screen,
     m_normal_screen |-> m_normal_screen,
     m_alternate_screen |-> m_alternate_screen,
     m_origin_mode |-> m_origin_mode,
     m_scrolling_restricted |-> m_scrolling_restricted,
     m_scrolling_region |-> m_scrolling_region,
     m_insert_mode |-> m_insert_mode,
     m_sendrecv_mode |-> m_sendrecv_mode,
     m_autowrap |-> m_autowrap,
     m_reverse_mode |-> m_reverse_mode,
     m_cursor_mode |-> m_cursor_mode,
     m_keypad_mode |-> m_keypad_mode,
     m_mouse_tracking_mode |-> m_mouse_tracking_mode,
     m_cursor_visible |-> m_cursor_visible,
     m_deccolm_mode |-> m_deccolm_mode,
     m_focus_tracking_mode |-> m_focus_tracking_mode,
     m_mouse_xterm_extension |-> m_mouse_xterm_extension,
     m_alternate_screen_scroll |-> m_alternate_screen_scroll,
     m_mouse_urxvt_extension |-> m_mouse_urxvt_extension,
     m_meta_sends_escape |-> m_meta_sends_escape,
     m_bracketed_paste_mode |-> m_bracketed_paste_mode,
     m_tabstops |-> m_tabstops,
     m_dec_saved |-> m_dec_saved,
     m_defaults |-> m_defaults,
     m_color_defaults |-> m_color_defaults,
     m_fill_defaults |-> m_fill_defaults,
     resize_window |-> resize_window,
     m_outgoing |-> m_outgoing,
     m_allow_hyperlink |-> m_allow_hyperlink,
     m_hyperlink_auto_id |-> m_hyperlink_auto_id,
     m_palette |-> m_palette]

\* The terminal t becomes the next state.
Becomes(t) ==
    /\ m_screen' = t.m_screen
    /\ m_normal_screen' = t.m_normal_screen
    /\ m_alternate_screen' = t.m_alternate_screen
    /\ m_origin_mode' = t.m_origin_mode
    /\ m_scrolling_restricted' = t.m_scrolling_restricted
    /\ m_scrolling_region' = t.m_scrolling_region
    /\ m_insert_mode' = t.m_insert_mode
    /\ m_sendrecv_mode' = t.m_sendrecv_mode
    /\ m_autowrap' = t.m_autowrap
    /\ m_reverse_mode' = t.m_reverse_mode
    /\ m_cursor_mode' = t.m_cursor_mode
    /\ m_keypad_mode' = t.m_keypad_mode
    /\ m_mouse_tracking_mode' = t.m_mouse_tracking_mode
    /\ m_cursor_visible' = t.m_cursor_visible
    /\ m_deccolm_mode' = t.m_deccolm_mode
    /\ m_focus_tracking_mode' = t.m_focus_tracking_mode
    /\ m_mouse_xterm_extension' = t.m_mouse_xterm_extension
    /\ m_alternate_screen_scroll' = t.m_alternate_screen_scroll
    /\ m_mouse_urxvt_extension' = t.m_mouse_urxvt_extension
    /\ m_meta_sends_escape' = t.m_meta_sends_escape
    /\ m_bracketed_paste_mode' = t.m_bracketed_paste_mode
    /\ m_tabstops' = t.m_tabstops
    /\ m_dec_saved' = t.m_dec_saved
    /\ m_defaults' = t.m_defaults
    /\ m_color_defaults' = t.m_color_defaults
    /\ m_fill_defaults' = t.m_fill_defaults
    /\ resize_window' = t.resize_window
    /\ m_outgoing' = t.m_outgoing
    /\ m_allow_hyperlink' = t.m_allow_hyperlink
    /\ m_hyperlink_auto_id' = t.m_hyperlink_auto_id
    /\ m_palette' = t.m_palette

\* *m_screen
Screen(t) == t[t.m_screen]

\* cursor.row - insert_delta: the cursor's row on the screen.
ScreenRow(t) == Screen(t).cursor.row - Screen(t).insert_delta

(***************************************************************************)
(* The ring of rows.  row_data holds the rows at insert_delta and below    *)
(* it (row insert_delta + i is row_data[i + 1]); the scrollback above      *)
(* insert_delta is not kept.  A row is its sequence of cells.              *)
(***************************************************************************)
_vte_ring_next(s) == s.insert_delta + Len(s.row_data)

_vte_ring_contains(s, position) ==
    position >= s.insert_delta /\ position < _vte_ring_next(s)

\* _vte_row_data_fill(row, cell, len): pad the row with cell up to len.
_vte_row_data_fill(row, cell, len) ==
    IF Len(row) >= len THEN row
    ELSE row \o [i \in 1..(len - Len(row)) |-> cell]

\* _vte_row_data_shrink(row, max_len)
_vte_row_data_shrink(row, max_len) ==
    IF max_len < Len(row) THEN SubSeq(row, 1, max_len) ELSE row

\* A row as ring_insert()/ring_append() make it: filled with the fill
\* template when that has a background colour and fill is asked for.
NewRow(t, fill) ==
    IF fill /\ t.m_fill_defaults.attr.back # VTE_DEFAULT_BG
    THEN _vte_row_data_fill(<< >>, t.m_fill_defaults, m_column_count)
    ELSE << >>

\* ring_remove(position): drop the row if the ring contains it.
ring_remove(t, position) ==
    LET s == Screen(t)
        i == position - s.insert_delta + 1
    IN  IF _vte_ring_contains(s, position)
        THEN [t EXCEPT ![t.m_screen].row_data =
                 SubSeq(s.row_data, 1, i - 1) \o SubSeq(s.row_data, i + 1, Len(s.row_data))]
        ELSE t

\* ring_insert(position, fill): append rows until the ring reaches position,
\* then insert a new row there.
ring_insert(t, position, fill) ==
    LET s == Screen(t)
        i == position - s.insert_delta + 1
        padded == IF Len(s.row_data) < i - 1
                  THEN s.row_data \o [k \in 1..(i - 1 - Len(s.row_data)) |-> NewRow(t, TRUE)]
                  ELSE s.row_data
    IN  [t EXCEPT ![t.m_screen].row_data =
            SubSeq(padded, 1, i - 1) \o << NewRow(t, fill) >> \o SubSeq(padded, i, Len(padded))]

\* ring_append(fill)
ring_append(t, fill) == ring_insert(t, _vte_ring_next(Screen(t)), fill)

\* ensure_row(): make the ring reach the cursor's row.
ensure_row(t) ==
    LET s == Screen(t)
        delta == s.cursor.row - _vte_ring_next(s) + 1
    IN  IF delta > 0
        THEN [t EXCEPT ![t.m_screen].row_data = s.row_data \o [k \in 1..delta |-> << >>]]
        ELSE t

\* The cells of the screen's row r (0-based, screen-relative); a row the
\* ring does not hold yet shows as an empty row.
RowAt(s, r) == IF r + 1 <= Len(s.row_data) THEN s.row_data[r + 1] ELSE << >>

(***************************************************************************)
(* The cursor.                                                             *)
(***************************************************************************)
ensure_cursor_is_onscreen(t) ==
    IF Screen(t).cursor.col >= m_column_count
    THEN [t EXCEPT ![t.m_screen].cursor.col = m_column_count - 1]
    ELSE t

set_cursor_column(t, col) ==
    [t EXCEPT ![t.m_screen].cursor.col = CLAMP(col, 0, m_column_count - 1)]

set_cursor_column1(t, col) == set_cursor_column(t, col - 1)

\* set_cursor_row() without its CLAMP.
set_cursor_row_unclamped(t, row) ==
    LET start_row == IF t.m_origin_mode /\ t.m_scrolling_restricted
                     THEN t.m_scrolling_region.start ELSE 0
    IN  [t EXCEPT ![t.m_screen].cursor.row = row + start_row + Screen(t).insert_delta]

set_cursor_row(t, row) ==
    LET restricted == t.m_origin_mode /\ t.m_scrolling_restricted
        start_row == IF restricted THEN t.m_scrolling_region.start ELSE 0
        end_row == IF restricted THEN t.m_scrolling_region.end ELSE m_row_count - 1
    IN  [t EXCEPT ![t.m_screen].cursor.row =
            CLAMP(row + start_row, start_row, end_row) + Screen(t).insert_delta]

set_cursor_row1(t, row) == set_cursor_row(t, row - 1)

get_cursor_column(t) == Screen(t).cursor.col

set_cursor_coords(t, row, column) == set_cursor_row(set_cursor_column(t, column), row)

set_cursor_coords1(t, row, column) == set_cursor_row1(set_cursor_column1(t, column), row)

\* home_cursor() that goes to the top line of the screen whatever the origin
\* mode is.
home_cursor_screen(t) ==
    [t EXCEPT ![t.m_screen].cursor = [row |-> Screen(t).insert_delta, col |-> 0]]

home_cursor(t) == set_cursor_coords(t, 0, 0)

move_cursor_down(t, rows0) ==
    LET rows == CLAMP(rows0, 1, m_row_count)
        t1 == ensure_cursor_is_onscreen(t)
        s == Screen(t1)
        end == IF t1.m_scrolling_restricted
               THEN s.insert_delta + t1.m_scrolling_region.end
               ELSE s.insert_delta + m_row_count - 1
    IN  [t1 EXCEPT ![t1.m_screen].cursor.row = MIN(s.cursor.row + rows, end)]

move_cursor_up(t, rows0) ==
    LET rows == CLAMP(rows0, 1, m_row_count)
        t1 == ensure_cursor_is_onscreen(t)
        s == Screen(t1)
        start == IF t1.m_scrolling_restricted
                 THEN s.insert_delta + t1.m_scrolling_region.start
                 ELSE s.insert_delta
    IN  [t1 EXCEPT ![t1.m_screen].cursor.row = MAX(s.cursor.row - rows, start)]

move_cursor_backward(t, columns0) ==
    LET t1 == ensure_cursor_is_onscreen(t)
        col == get_cursor_column(t1)
        columns == CLAMP(columns0, 1, col)
    IN  set_cursor_column(t1, col - columns)

move_cursor_forward(t, columns0) ==
    LET columns == CLAMP(columns0, 1, m_column_count)
        t1 == ensure_cursor_is_onscreen(t)
        col == get_cursor_column(t1)
    IN  IF col < m_column_count THEN set_cursor_column(t1, col + columns) ELSE t1

(***************************************************************************)
(* Cursor movement handlers.                                               *)
(***************************************************************************)
\* CUP() with 2 as the default of its row parameter.
CUP_default2(t, seq) ==
    LET rowvalue == collect1_minmax(seq, 0, 2, 1, m_row_count)
        colvalue == collect1_minmax(seq, next(seq, 0), 1, 1, m_column_count)
    IN  set_cursor_coords1(t, rowvalue, colvalue)

CUP(t, seq) ==
    LET rowvalue == collect1_minmax(seq, 0, 1, 1, m_row_count)
        colvalue == collect1_minmax(seq, next(seq, 0), 1, 1, m_column_count)
    IN  set_cursor_coords1(t, rowvalue, colvalue)

HVP(t, seq) == CUP(t, seq)

CUU(t, seq) == move_cursor_up(t, collect1(seq, 0, 1))

CUD(t, seq) == move_cursor_down(t, collect1(seq, 0, 1))

CUF(t, seq) == move_cursor_forward(t, collect1(seq, 0, 1))

CUB(t, seq) == move_cursor_backward(t, collect1(seq, 0, 1))

(***************************************************************************)
(* DECSTBM: the scrolling region.                                          *)
(***************************************************************************)
DECSTBM(t, seq) ==
    LET c == collect2(seq, 0, -1)
        start == IF c.a = -1 THEN 1 ELSE c.a
        end0 == IF c.b = -1 THEN m_row_count ELSE c.b
        end == IF end0 > m_row_count THEN m_row_count ELSE end0
        s == Screen(t)
        \* "Maybe extend the ring": rows are added until it covers the screen.
        extended == _vte_row_data_fill(s.row_data, << >>, m_row_count)
    IN  IF start < 1 \/ start > m_row_count \/ end0 < start + 1
        THEN home_cursor([t EXCEPT !.m_scrolling_restricted = FALSE])
        ELSE IF start - 1 = 0 /\ end - 1 = m_row_count - 1
        THEN home_cursor([t EXCEPT !.m_scrolling_region = [start |-> start - 1, end |-> end - 1],
                                   !.m_scrolling_restricted = FALSE])
        ELSE home_cursor([t EXCEPT !.m_scrolling_region = [start |-> start - 1, end |-> end - 1],
                                   !.m_scrolling_restricted = TRUE,
                                   ![t.m_screen].row_data = extended])

(***************************************************************************)
(* Scrolling and line insertion / deletion.                                *)
(***************************************************************************)
\* for (i = 0; i < n; i++) { ring_remove(from); ring_insert(to, true); }
RECURSIVE RemoveInsert(_, _, _, _)
RemoveInsert(t, n, from, to) ==
    IF n <= 0 THEN t
    ELSE RemoveInsert(ring_insert(ring_remove(t, from), to, TRUE), n - 1, from, to)

\* while (_vte_ring_next(ring) <= end) ring_append(false);
RECURSIVE AppendUntil(_, _)
AppendUntil(t, end) ==
    IF _vte_ring_next(Screen(t)) <= end THEN AppendUntil(ring_append(t, FALSE), end) ELSE t

scroll_text(t, scroll_amount) ==
    LET s == Screen(t)
        start == IF t.m_scrolling_restricted
                 THEN s.insert_delta + t.m_scrolling_region.start
                 ELSE s.insert_delta
        end == IF t.m_scrolling_restricted
               THEN s.insert_delta + t.m_scrolling_region.end
               ELSE start + m_row_count - 1
        t1 == AppendUntil(t, end)
    IN  IF scroll_amount > 0
        THEN RemoveInsert(t1, scroll_amount, end, start)
        ELSE RemoveInsert(t1, -scroll_amount, start, end)

insert_lines(t, param0) ==
    LET s == Screen(t)
        row == s.cursor.row
        end == IF t.m_scrolling_restricted
               THEN s.insert_delta + t.m_scrolling_region.end
               ELSE s.insert_delta + m_row_count - 1
        limit == end - row + 1
        t1 == RemoveInsert(t, MIN(param0, limit), end, row)
    IN  [t1 EXCEPT ![t1.m_screen].cursor.col = 0]

delete_lines(t, param0) ==
    LET s == Screen(t)
        row == s.cursor.row
        end == IF t.m_scrolling_restricted
               THEN s.insert_delta + t.m_scrolling_region.end
               ELSE s.insert_delta + m_row_count - 1
        limit == end - row + 1
        t1 == RemoveInsert(t, MIN(param0, limit), row, end)
    IN  [t1 EXCEPT ![t1.m_screen].cursor.col = 0]

IL(t, seq) == insert_lines(t, collect1(seq, 0, 1))

DL(t, seq) == delete_lines(t, collect1(seq, 0, 1))

SD(t, seq) == scroll_text(t, MAX(collect1(seq, 0, 1), 1))

SU(t, seq) == scroll_text(t, -MAX(collect1(seq, 0, 1), 1))

(***************************************************************************)
(* Clearing, the saved cursor and the two screens.                         *)
(***************************************************************************)
clear_screen(t) ==
    LET s == Screen(t)
        row == s.cursor.row - s.insert_delta
        initial == _vte_ring_next(s)
    IN  [t EXCEPT ![t.m_screen].row_data = [i \in 1..m_row_count |-> NewRow(t, TRUE)],
                  ![t.m_screen].insert_delta = initial,
                  ![t.m_screen].cursor.row = row + initial]

\* save_cursor(VteScreen*): the slot holds the cursor relative to
\* insert_delta, the origin mode and the three attribute templates.
save_cursor_screen(t, screen) ==
    [t EXCEPT ![screen].saved =
        [cursor |-> [row |-> t[screen].cursor.row - t[screen].insert_delta,
                     col |-> t[screen].cursor.col],
         origin_mode |-> t.m_origin_mode,
         defaults |-> t.m_defaults,
         color_defaults |-> t.m_color_defaults,
         fill_defaults |-> t.m_fill_defaults]]

\* restore_cursor(VteScreen*)
restore_cursor_screen(t, screen) ==
    LET saved == t[screen].saved
    IN  [t EXCEPT ![screen].cursor =
                      [row |-> t[screen].insert_delta + CLAMP(saved.cursor.row, 0, m_row_count - 1),
                       col |-> saved.cursor.col],
                  !.m_origin_mode = saved.origin_mode,
                  !.m_defaults = saved.defaults,
                  !.m_color_defaults = saved.color_defaults,
                  !.m_fill_defaults = saved.fill_defaults]

\* restore_cursor() without ensure_cursor_is_onscreen().
restore_cursor_offscreen(t) == restore_cursor_screen(t, t.m_screen)

restore_cursor(t) == ensure_cursor_is_onscreen(restore_cursor_screen(t, t.m_screen))

\* save_cursor() saving into the normal screen's slot whichever screen is active.
save_cursor_normal(t) == save_cursor_screen(t, "m_normal_screen")

save_cursor(t) == save_cursor_screen(t, t.m_screen)

switch_screen(t, new_screen) ==
    LET cr == Screen(t).cursor.row - Screen(t).insert_delta
        t1 == [t EXCEPT !.m_defaults.attr.hyperlink_idx = 0,
                        !.m_screen = new_screen,
                        ![new_screen].cursor.row = cr + t[new_screen].insert_delta]
    IN  ensure_row(t1)

switch_normal_screen(t) == switch_screen(t, "m_normal_screen")

\* switch_alternate_screen() switching to the normal screen.
switch_alternate_screen_wrong(t) == switch_screen(t, "m_normal_screen")

switch_alternate_screen(t) == switch_screen(t, "m_alternate_screen")

\* switch_normal_screen_and_restore_cursor() without restore_cursor().
switch_normal_screen_only(t) == switch_normal_screen(t)

switch_normal_screen_and_restore_cursor(t) == restore_cursor(switch_normal_screen(t))

save_cursor_and_switch_alternate_screen(t) == switch_alternate_screen(save_cursor(t))

\* The mouse scroll delta is not part of the model.
reset_mouse_smooth_scroll_delta(t) == t

\* Feeds a focus report to the child, which is not part of the model.
feed_focus_event_initial(t) == t

(***************************************************************************)
(* DEC private modes: the settings table and decset().                     *)
(***************************************************************************)
VTE_KEYMODE_NORMAL == 0
VTE_KEYMODE_APPLICATION == 1
MOUSE_TRACKING_NONE == 0
MOUSE_TRACKING_SEND_XY_ON_CLICK == 1
MOUSE_TRACKING_SEND_XY_ON_BUTTON == 2
MOUSE_TRACKING_HILITE_TRACKING == 3
MOUSE_TRACKING_CELL_MOTION_TRACKING == 4
MOUSE_TRACKING_ALL_MOTION_TRACKING == 5

\* One decset_t; an offset is the name of the member, "" for 0, and a hook
\* is the name of the method, "" for nullptr.
Entry(boffset, ioffset, fvalue, tvalue, reset, set) ==
    [boffset |-> boffset, ioffset |-> ioffset, fvalue |-> fvalue,
     tvalue |-> tvalue, reset |-> reset, set |-> set]

Ignored == Entry("", "", 0, 0, "", "")

Bool(member) == Entry(member, "", FALSE, TRUE, "", "")

Mouse(tvalue) ==
    Entry("", "m_mouse_tracking_mode", 0, tvalue,
          "reset_mouse_smooth_scroll_delta", "reset_mouse_smooth_scroll_delta")

settings ==
    [setting \in {1, 2, 3, 5, 6, 7, 8, 9, 12, 25, 30, 35, 40, 47, 66, 67,
                  1000, 1001, 1002, 1003, 1004, 1006, 1007, 1010, 1011,
                  1015, 1035, 1036, 1037, 1047, 1048, 1049, 2004} |->
        CASE setting = 1 -> Entry("", "m_cursor_mode", VTE_KEYMODE_NORMAL,
                                  VTE_KEYMODE_APPLICATION, "", "")
          [] setting = 3 -> Entry("", "", FALSE, TRUE, "", "")
          [] setting = 5 -> Bool("m_reverse_mode")
          [] setting = 6 -> Bool("m_origin_mode")
          [] setting = 7 -> Bool("m_autowrap")
          [] setting = 9 -> Mouse(MOUSE_TRACKING_SEND_XY_ON_CLICK)
          [] setting = 25 -> Bool("m_cursor_visible")
          [] setting = 40 -> Bool("m_deccolm_mode")
          [] setting = 47 -> Entry("", "", 0, 0, "switch_normal_screen",
                                   "switch_alternate_screen")
          [] setting = 66 -> Entry("m_keypad_mode", "", VTE_KEYMODE_NORMAL,
                                   VTE_KEYMODE_APPLICATION, "", "")
          [] setting = 1000 -> Mouse(MOUSE_TRACKING_SEND_XY_ON_BUTTON)
          [] setting = 1001 -> Mouse(MOUSE_TRACKING_HILITE_TRACKING)
          [] setting = 1002 -> Mouse(MOUSE_TRACKING_CELL_MOTION_TRACKING)
          [] setting = 1003 -> Mouse(MOUSE_TRACKING_ALL_MOTION_TRACKING)
          [] setting = 1004 -> Entry("m_focus_tracking_mode", "", FALSE, TRUE,
                                     "", "feed_focus_event_initial")
          [] setting = 1006 -> Bool("m_mouse_xterm_extension")
          [] setting = 1007 -> Bool("m_alternate_screen_scroll")
          [] setting = 1015 -> Bool("m_mouse_urxvt_extension")
          [] setting = 1036 -> Bool("m_meta_sends_escape")
          [] setting = 1047 -> Entry("", "", 0, 0, "switch_normal_screen",
                                     "switch_alternate_screen")
          [] setting = 1048 -> Entry("", "", 0, 0, "restore_cursor", "save_cursor")
          [] setting = 1049 -> Entry("", "", 0, 0,
                                     "switch_normal_screen_and_restore_cursor",
                                     "save_cursor_and_switch_alternate_screen")
          [] setting = 2004 -> Bool("m_bracketed_paste_mode")
          [] OTHER -> Ignored]

\* (this->*handler)()
Call(t, handler) ==
    CASE handler = "switch_normal_screen" -> switch_normal_screen(t)
      [] handler = "switch_alternate_screen" -> switch_alternate_screen(t)
      [] handler = "restore_cursor" -> restore_cursor(t)
      [] handler = "save_cursor" -> save_cursor(t)
      [] handler = "switch_normal_screen_and_restore_cursor" ->
             switch_normal_screen_and_restore_cursor(t)
      [] handler = "save_cursor_and_switch_alternate_screen" ->
             save_cursor_and_switch_alternate_screen(t)
      [] handler = "reset_mouse_smooth_scroll_delta" -> reset_mouse_smooth_scroll_delta(t)
      [] handler = "feed_focus_event_initial" -> feed_focus_event_initial(t)
      [] OTHER -> t

\* g_hash_table_lookup(m_dec_saved, setting) != NULL
dec_saved_lookup(t, setting) ==
    setting \in DOMAIN t.m_dec_saved /\ t.m_dec_saved[setting]

\* g_hash_table_insert(m_dec_saved, setting, set)
dec_saved_insert(t, setting, set) ==
    [t EXCEPT !.m_dec_saved =
        [k \in DOMAIN t.m_dec_saved \cup {setting} |->
            IF k = setting THEN set ELSE t.m_dec_saved[k]]]

\* "Read the old setting" and "Save the current setting": the value of set
\* the rest of decset() works with.
decset_value(t, key, setting, restore, save, set) ==
    LET restored == IF restore THEN dec_saved_lookup(t, setting) ELSE set
    IN  IF ~save THEN restored
        ELSE IF key.boffset # "" THEN t[key.boffset] # FALSE
        ELSE IF key.ioffset # "" THEN t[key.ioffset] = key.tvalue
        ELSE restored

\* decset_apply() whose reset leaves an integer alone that holds the "on"
\* value of another setting.
decset_apply_own(t, key, set) ==
    LET t1 == IF key.set # "" /\ set THEN Call(t, key.set) ELSE t
        t2 == IF key.boffset # "" THEN [t1 EXCEPT ![key.boffset] = set]
              ELSE IF key.ioffset # ""
              THEN [t1 EXCEPT ![key.ioffset] =
                       IF set THEN key.tvalue
                       ELSE IF @ = key.tvalue THEN key.fvalue ELSE @]
              ELSE t1
    IN  IF key.reset # "" /\ ~set THEN Call(t2, key.reset) ELSE t2

\* "Change the current setting to match the new/saved value."
decset_apply(t, key, set) ==
    LET t1 == IF key.set # "" /\ set THEN Call(t, key.set) ELSE t
        t2 == IF key.boffset # "" THEN [t1 EXCEPT ![key.boffset] = set]
              ELSE IF key.ioffset # ""
              THEN [t1 EXCEPT ![key.ioffset] = IF set THEN key.tvalue ELSE key.fvalue]
              ELSE t1
    IN  IF key.reset # "" /\ ~set THEN Call(t2, key.reset) ELSE t2

\* "Do whatever's necessary when the setting changes": the switch at the
\* end of decset().
decset_switch(t, setting, set) ==
    CASE setting = 3 ->
             IF t.m_deccolm_mode
             THEN home_cursor(clear_screen(
                      [t EXCEPT !.resize_window = IF set THEN 132 ELSE 80]))
             ELSE t
      [] setting = 6 -> home_cursor(t)
      [] setting \in {47, 1047, 1049} -> IF set THEN clear_screen(t) ELSE t
      [] OTHER -> t

\* decset() without "Handle settings we want to ignore".
decset_noignore(t, setting, restore, save, set) ==
    IF setting \notin DOMAIN settings THEN t
    ELSE
        LET key == settings[setting]
            value == decset_value(t, key, setting, restore, save, set)
            t1 == IF save THEN dec_saved_insert(t, setting, value)
                  ELSE decset_apply(t, key, value)
        IN  decset_switch(t1, setting, value)

decset(t, setting, restore, save, set) ==
    IF setting \notin DOMAIN settings THEN t
    ELSE
        LET key == settings[setting]
            ignore == key.fvalue = key.tvalue /\ key.set = "" /\ key.reset = ""
            value == IF ignore THEN set
                     ELSE decset_value(t, key, setting, restore, save, set)
            t1 == IF ignore THEN t
                  ELSE IF save THEN dec_saved_insert(t, setting, value)
                  ELSE decset_apply(t, key, value)
        IN  decset_switch(t1, setting, value)

\* decset(seq, restore, save, set): every parameter that is a number.
RECURSIVE decset_from(_, _, _, _, _, _)
decset_from(t, seq, i, restore, save, set) ==
    IF i >= size(seq) THEN t
    ELSE IF param_default(seq, i) THEN decset_from(t, seq, i + 1, restore, save, set)
    ELSE decset_from(decset(t, param(seq, i, -1), restore, save, set),
                     seq, i + 1, restore, save, set)

SM_DEC(t, seq) == decset_from(t, seq, 0, FALSE, FALSE, TRUE)

RM_DEC(t, seq) == decset_from(t, seq, 0, FALSE, FALSE, FALSE)

XTERM_RPM(t, seq) == decset_from(t, seq, 0, TRUE, FALSE, FALSE)

XTERM_SPM(t, seq) == decset_from(t, seq, 0, FALSE, TRUE, FALSE)

(***************************************************************************)
(* Printing a character.                                                   *)
(***************************************************************************)
\* update_insert_delta(): keep the cursor's row among the last m_row_count
\* rows; the rows that leave the screen go to the scrollback.
update_insert_delta(t) ==
    LET s == Screen(t)
        rows == MAX(_vte_ring_next(s), s.cursor.row + 1)
        delta == MAX(rows - m_row_count, s.insert_delta)
        gone == delta - s.insert_delta
    IN  [t EXCEPT ![t.m_screen].insert_delta = delta,
                  ![t.m_screen].row_data =
                      SubSeq(s.row_data, MIN(gone, Len(s.row_data)) + 1, Len(s.row_data))]

\* cursor_down(): one row down, scrolling the region or the screen when the
\* cursor is on its last row.
cursor_down(t) ==
    LET s == Screen(t)
        start == IF t.m_scrolling_restricted
                 THEN s.insert_delta + t.m_scrolling_region.start
                 ELSE s.insert_delta
        end == IF t.m_scrolling_restricted
               THEN s.insert_delta + t.m_scrolling_region.end
               ELSE start + m_row_count - 1
        down == [t EXCEPT ![t.m_screen].cursor.row = s.cursor.row + 1]
    IN  IF s.cursor.row # end THEN down
        ELSE IF ~t.m_scrolling_restricted THEN ensure_row(update_insert_delta(down))
        ELSE IF start = s.insert_delta
        THEN ring_insert([down EXCEPT ![t.m_screen].insert_delta = s.insert_delta + 1,
                                      ![t.m_screen].row_data =
                                          SubSeq(s.row_data, 2, Len(s.row_data))],
                         s.cursor.row + 1, FALSE)
        ELSE ring_insert(ring_remove(t, start), end, TRUE)

\* ensure_cursor(): the cursor's row exists and reaches the cursor's column.
ensure_cursor(t) ==
    LET t1 == ensure_row(t)
        s == Screen(t1)
        i == s.cursor.row - s.insert_delta + 1
    IN  [t1 EXCEPT ![t.m_screen].row_data[i] =
            _vte_row_data_fill(s.row_data[i], basic_cell, s.cursor.col)]

\* insert_char(c, insert, invalidate_now) for a character one column wide.
insert_char(t, c, insert0) ==
    LET insert == insert0 \/ t.m_insert_mode
        wrap == Screen(t).cursor.col + 1 > m_column_count
        t1 == IF ~wrap THEN t
              ELSE IF t.m_autowrap
              THEN ensure_row(cursor_down([t EXCEPT ![t.m_screen].cursor.col = 0]))
              ELSE [t EXCEPT ![t.m_screen].cursor.col = m_column_count - 1]
        t2 == ensure_cursor(t1)
        s == Screen(t2)
        col == s.cursor.col
        i == s.cursor.row - s.insert_delta + 1
        cell == [c |-> c, attr |-> [t.m_defaults.attr EXCEPT !.columns = 1, !.fragment = FALSE]]
        row == s.row_data[i]
        written == IF insert
                   THEN SubSeq(row, 1, col) \o << cell >> \o SubSeq(row, col + 1, Len(row))
                   ELSE [_vte_row_data_fill(row, basic_cell, col + 1) EXCEPT ![col + 1] = cell]
    IN  [t2 EXCEPT ![t.m_screen].row_data[i] = _vte_row_data_shrink(written, m_column_count),
                   ![t.m_screen].cursor.col = col + 1]

GRAPHIC(t, terminator) == insert_char(t, terminator, FALSE)

(***************************************************************************)
(* SGR and its extended colours.                                           *)
(***************************************************************************)
\* VTE_RGB_COLOR(bb, gb, rb, r, g, b): the direct-colour flag above the
\* three components, each cut down to its number of bits.
VTE_RGB_COLOR(bb, gb, rb, r, g, b) ==
    2 ^ (rb + gb + bb)
    + ((r \div 2 ^ (8 - rb)) % 2 ^ rb) * 2 ^ (gb + bb)
    + ((g \div 2 ^ (8 - gb)) % 2 ^ gb) * 2 ^ bb
    + ((b \div 2 ^ (8 - bb)) % 2 ^ bb)

\* A range check that lets every value through.
FitsAnything(v) == TRUE

\* (v & 0xff) == v
FitsByte(v) == v >= 0 /\ v <= 255

ParseResult(ok, idx, color) == [ok |-> ok, idx |-> idx, color |-> color]

\* The colon version reading the components where the colourspace id is.
sgr_color_colon_noskip(seq, idx, redbits, greenbits, bluebits) ==
    LET red == param(seq, idx + 1, -1)
        green == param(seq, idx + 2, -1)
        blue == param(seq, idx + 3, -1)
    IN  IF param(seq, idx, -1) = 2 /\ red >= 0 /\ green >= 0 /\ blue >= 0
        THEN [ok |-> TRUE, idx |-> idx + 3,
              color |-> VTE_RGB_COLOR(redbits, greenbits, bluebits, red, green, blue)]
        ELSE [ok |-> FALSE, idx |-> idx, color |-> 0]

\* The colon version, idx already on the colour type.
sgr_color_colon(seq, idx, redbits, greenbits, bluebits) ==
    LET n == next(seq, idx) - idx
    IN  CASE param(seq, idx, -1) = 2 ->
                 IF n < 4 THEN ParseResult(FALSE, idx, 0)
                 ELSE IF n > 4 /\ ~param_default(seq, idx + 1)
                 THEN ParseResult(FALSE, idx + 1, 0)
                 ELSE
                     LET at == IF n > 4 THEN idx + 1 ELSE idx
                         red == param(seq, at + 1, -1)
                         green == param(seq, at + 2, -1)
                         blue == param(seq, at + 3, -1)
                     IN  IF ~FitsByte(red) \/ ~FitsByte(green) \/ ~FitsByte(blue)
                         THEN ParseResult(FALSE, at + 3, 0)
                         ELSE ParseResult(TRUE, at + 3,
                                  VTE_RGB_COLOR(redbits, greenbits, bluebits, red, green, blue))
          [] param(seq, idx, -1) = 5 ->
                 IF n < 2 THEN ParseResult(FALSE, idx, 0)
                 ELSE
                     LET v == param(seq, idx + 1, -1)
                     IN  IF v < 0 \/ v >= 256 THEN ParseResult(FALSE, idx + 1, 0)
                         ELSE ParseResult(TRUE, idx + 1, v)
          [] OTHER -> ParseResult(FALSE, idx, 0)

\* The semicolon version giving up on the colour type.
sgr_color_semicolon_early(seq, idx, redbits, greenbits, bluebits) ==
    [ok |-> FALSE, idx |-> idx, color |-> 0]

\* The semicolon version, idx already on the colour type.
sgr_color_semicolon(seq, idx, redbits, greenbits, bluebits) ==
    CASE param(seq, idx, -1) = 2 ->
             LET ri == next(seq, idx)
                 gi == next(seq, ri)
                 bi == next(seq, gi)
                 red == param(seq, ri, -1)
                 green == param(seq, gi, -1)
                 blue == param(seq, bi, -1)
             IN  IF ~FitsByte(red) \/ ~FitsByte(green) \/ ~FitsByte(blue)
                 THEN ParseResult(FALSE, bi, 0)
                 ELSE ParseResult(TRUE, bi,
                          VTE_RGB_COLOR(redbits, greenbits, bluebits, red, green, blue))
      [] param(seq, idx, -1) = 5 ->
             LET vi == next(seq, idx)
                 v == param(seq, vi, -1)
             IN  IF ~FitsByte(v) THEN ParseResult(FALSE, vi, 0)
                 ELSE ParseResult(TRUE, vi, v)
      [] OTHER -> ParseResult(FALSE, idx, 0)

\* seq_parse_sgr_color<redbits, greenbits, bluebits>(seq, idx, color): ok,
\* the index it leaves in idx, and the colour.
seq_parse_sgr_color(seq, idx, redbits, greenbits, bluebits) ==
    IF param_nonfinal(seq, idx)
    THEN sgr_color_colon(seq, idx + 1, redbits, greenbits, bluebits)
    ELSE sgr_color_semicolon(seq, next(seq, idx), redbits, greenbits, bluebits)

\* reset_default_attributes(reset_hyperlink)
reset_default_attributes(t, reset_hyperlink) ==
    LET hyperlink_idx_save == t.m_defaults.attr.hyperlink_idx
        t1 == [t EXCEPT !.m_defaults = basic_cell,
                        !.m_color_defaults = basic_cell,
                        !.m_fill_defaults = basic_cell]
    IN  IF reset_hyperlink THEN t1
        ELSE [t1 EXCEPT !.m_defaults.attr.hyperlink_idx = hyperlink_idx_save]

\* One turn of the loop of SGR(): the terminal after the switch and the
\* index the parameter left in i.
sgr_param(t, seq, i) ==
    LET p == param(seq, i, -1)
        Set(field, value) == [t |-> [t EXCEPT !.m_defaults.attr[field] = value], i |-> i]
        Colour(field, r) ==
            [t |-> IF r.ok THEN [t EXCEPT !.m_defaults.attr[field] = r.color] ELSE t,
             i |-> r.idx]
    IN  CASE p \in {-1, 0} -> [t |-> reset_default_attributes(t, FALSE), i |-> i]
          [] p = 1 -> Set("bold", TRUE)
          [] p = 2 -> Set("dim", TRUE)
          [] p = 3 -> Set("italic", TRUE)
          [] p = 4 -> Set("underline",
                          IF param_nonfinal(seq, i)
                          THEN param_minmax(seq, i + 1, 1, 0, 3) ELSE 1)
          [] p = 5 -> Set("blink", TRUE)
          [] p = 7 -> Set("reverse", TRUE)
          [] p = 8 -> Set("invisible", TRUE)
          [] p = 9 -> Set("strikethrough", TRUE)
          [] p = 21 -> Set("underline", 2)
          [] p = 22 -> [t |-> [t EXCEPT !.m_defaults.attr.bold = FALSE,
                                        !.m_defaults.attr.dim = FALSE], i |-> i]
          [] p = 23 -> Set("italic", FALSE)
          [] p = 24 -> Set("underline", 0)
          [] p = 25 -> Set("blink", FALSE)
          [] p = 27 -> Set("reverse", FALSE)
          [] p = 28 -> Set("invisible", FALSE)
          [] p = 29 -> Set("strikethrough", FALSE)
          [] p \in 30..37 -> Set("fore", VTE_LEGACY_COLORS_OFFSET + (p - 30))
          [] p = 38 -> Colour("fore", seq_parse_sgr_color(seq, i, 8, 8, 8))
          [] p = 39 -> Set("fore", VTE_DEFAULT_FG)
          [] p \in 40..47 -> Set("back", VTE_LEGACY_COLORS_OFFSET + (p - 40))
          [] p = 48 -> Colour("back", seq_parse_sgr_color(seq, i, 8, 8, 8))
          [] p = 49 -> Set("back", VTE_DEFAULT_BG)
          [] p = 53 -> Set("overline", TRUE)
          [] p = 55 -> Set("overline", FALSE)
          [] p = 58 -> Colour("deco", seq_parse_sgr_color(seq, i, 4, 5, 4))
          [] p = 59 -> Set("deco", VTE_DEFAULT_FG)
          [] p \in 90..97 -> Set("fore", VTE_LEGACY_COLORS_OFFSET + (p - 90)
                                         + VTE_COLOR_BRIGHT_OFFSET)
          [] p \in 100..107 -> Set("back", VTE_LEGACY_COLORS_OFFSET + (p - 100)
                                           + VTE_COLOR_BRIGHT_OFFSET)
          [] OTHER -> [t |-> t, i |-> i]

RECURSIVE sgr_loop(_, _, _)
sgr_loop(t, seq, i) ==
    IF i >= size(seq) THEN t
    ELSE LET r == sgr_param(t, seq, i)
         IN  sgr_loop(r.t, seq, next(seq, r.i))

\* SGR() with the templates taking every attribute of m_defaults.
SGR_whole(t, seq) ==
    IF size(seq) = 0 THEN reset_default_attributes(t, FALSE)
    ELSE LET t1 == sgr_loop(t, seq, 0)
         IN  [t1 EXCEPT !.m_color_defaults.attr = t1.m_defaults.attr,
                        !.m_fill_defaults.attr = t1.m_defaults.attr]

SGR(t, seq) ==
    IF size(seq) = 0 THEN reset_default_attributes(t, FALSE)
    ELSE LET t1 == sgr_loop(t, seq, 0)
         IN  [t1 EXCEPT !.m_color_defaults.attr = copy_colors(@, t1.m_defaults.attr),
                        !.m_fill_defaults.attr = copy_colors(@, t1.m_defaults.attr)]

(***************************************************************************)
(* StringTokeniser of parser-glue.hh.  A std::string is a sequence of      *)
(* characters; positions count from 0.  The tokeniser and the              *)
(* const_iterator that walks it are one record.                            *)
(***************************************************************************)
\* std::string::npos
npos == -1

\* m_string->find(c, pos)
find(str, c, pos) ==
    LET at == {i \in 0..(Len(str) - 1) : i >= pos /\ str[i + 1] = c}
    IN  IF pos = npos \/ at = {} THEN npos ELSE CHOOSE i \in at : \A j \in at : i <= j

\* m_string->substr(pos, n)
substr(str, pos, n) == SubSeq(str, pos + 1, MIN(pos + n, Len(str)))

\* StringTokeniser(s, separator) and its cbegin(): const_iterator(&m_string,
\* m_separator, 0).
cbegin(s, separator) ==
    [m_string |-> s, m_separator |-> separator,
     m_position |-> 0, m_next_separator |-> find(s, separator, 0)]

\* cend(): const_iterator(&m_string, m_separator)
cend(s, separator) ==
    [m_string |-> s, m_separator |-> separator,
     m_position |-> npos, m_next_separator |-> npos]

\* const_iterator::operator!=
differs(it, o) == it.m_position # o.m_position

\* const_iterator::operator++ that goes on from the separator itself.
increment_onto(it) ==
    IF it.m_next_separator # npos
    THEN [it EXCEPT !.m_position = it.m_next_separator,
                    !.m_next_separator = find(it.m_string, it.m_separator,
                                              it.m_next_separator + 1)]
    ELSE [it EXCEPT !.m_position = npos]

\* const_iterator::operator++
increment(it) ==
    IF it.m_next_separator # npos
    THEN [it EXCEPT !.m_position = it.m_next_separator + 1,
                    !.m_next_separator = find(it.m_string, it.m_separator,
                                              it.m_next_separator + 1)]
    ELSE [it EXCEPT !.m_position = npos]

\* const_iterator::size()
token_size(it) ==
    IF it.m_next_separator # npos THEN it.m_next_separator - it.m_position
    ELSE Len(it.m_string) - it.m_position

\* const_iterator::operator*
token(it) == substr(it.m_string, it.m_position, token_size(it))

\* const_iterator::string_remaining()
string_remaining(it) == substr(it.m_string, it.m_position, Len(it.m_string))

DecimalDigits == << "0", "1", "2", "3", "4", "5", "6", "7", "8", "9" >>

isdigit(c) == \E d \in 1..10 : DecimalDigits[d] = c

DigitValue(c) == (CHOOSE d \in 1..10 : DecimalDigits[d] = c) - 1

RECURSIVE number_from(_, _, _, _)
\* The loop of number() from the character i of the token on.
number_from(it, s, i, v) ==
    IF i >= s THEN [ok |-> TRUE, v |-> v]
    ELSE LET c == it.m_string[it.m_position + i + 1]
         IN  IF ~isdigit(c) THEN [ok |-> FALSE, v |-> v]
             ELSE IF v * 10 + DigitValue(c) > 65535
             THEN [ok |-> FALSE, v |-> v * 10 + DigitValue(c)]
             ELSE number_from(it, s, i + 1, v * 10 + DigitValue(c))

\* number() without the case of the empty token.
number_unguarded(it) == number_from(it, token_size(it), 0, 0)

\* const_iterator::number(v): what it returns and what it leaves in v.
number(it) ==
    IF token_size(it) = 0 THEN [ok |-> TRUE, v |-> -1]
    ELSE number_from(it, token_size(it), 0, 0)

\* The tab stops: whether m_tabstops points to a table, and the columns the
\* table holds.  nullptr is no table.
nullptr == [table |-> FALSE, stops |-> {}]

VTE_TAB_MAX == 999

\* set_default_tabstops(): a stop every eight columns.
default_tabstops ==
    [table |-> TRUE, stops |-> {c \in 0..VTE_TAB_MAX : c % 8 = 0}]

(***************************************************************************)
(* The state after construction and the dispatch of one sequence.          *)
(***************************************************************************)
\* The terminal after construction, as a record.
InitialTerminal ==
    [m_screen |-> "m_normal_screen",
     m_normal_screen |-> InitScreen,
     m_alternate_screen |-> InitScreen,
     m_origin_mode |-> FALSE,
     m_scrolling_restricted |-> FALSE,
     m_scrolling_region |-> [start |-> 0, end |-> 0],
     m_insert_mode |-> FALSE,
     m_sendrecv_mode |-> TRUE,
     m_autowrap |-> TRUE,
     m_reverse_mode |-> FALSE,
     m_cursor_mode |-> VTE_KEYMODE_NORMAL,
     m_keypad_mode |-> FALSE,
     m_mouse_tracking_mode |-> MOUSE_TRACKING_NONE,
     m_cursor_visible |-> TRUE,
     m_deccolm_mode |-> FALSE,
     m_focus_tracking_mode |-> FALSE,
     m_mouse_xterm_extension |-> FALSE,
     m_alternate_screen_scroll |-> TRUE,
     m_mouse_urxvt_extension |-> FALSE,
     m_meta_sends_escape |-> TRUE,
     m_bracketed_paste_mode |-> FALSE,
     m_tabstops |-> default_tabstops,
     m_dec_saved |-> [k \in {} |-> FALSE],
     m_defaults |-> basic_cell,
     m_color_defaults |-> basic_cell,
     m_fill_defaults |-> basic_cell,
     resize_window |-> 0,
     m_outgoing |-> << >>,
     m_allow_hyperlink |-> FALSE,
     m_hyperlink_auto_id |-> 0,
     m_palette |-> [k \in {} |-> << >>]]

\* RIS: reset(true, true), the full reset, which returns the terminal state
\* to its initial values; whether hyperlinks are allowed is the widget's
\* setting and the hyperlink id generator runs for the terminal's lifetime.
RIS(t) ==
    [InitialTerminal EXCEPT !.m_allow_hyperlink = t.m_allow_hyperlink,
                            !.m_hyperlink_auto_id = t.m_hyperlink_auto_id]

NoMark == [kind |-> "none"]

InitTerminal ==
    /\ m_screen = "m_normal_screen"
    /\ m_normal_screen = InitScreen
    /\ m_alternate_screen = InitScreen
    /\ m_origin_mode = FALSE
    /\ m_scrolling_restricted = FALSE
    /\ m_scrolling_region = [start |-> 0, end |-> 0]
    /\ m_insert_mode = FALSE
    /\ m_sendrecv_mode = TRUE
    /\ m_autowrap = TRUE
    /\ m_reverse_mode = FALSE
    /\ m_cursor_mode = VTE_KEYMODE_NORMAL
    /\ m_keypad_mode = FALSE
    /\ m_mouse_tracking_mode = MOUSE_TRACKING_NONE
    /\ m_cursor_visible = TRUE
    /\ m_deccolm_mode = FALSE
    /\ m_focus_tracking_mode = FALSE
    /\ m_mouse_xterm_extension = FALSE
    /\ m_alternate_screen_scroll = TRUE
    /\ m_mouse_urxvt_extension = FALSE
    /\ m_meta_sends_escape = TRUE
    /\ m_bracketed_paste_mode = FALSE
    /\ m_tabstops = default_tabstops
    /\ m_dec_saved = [k \in {} |-> FALSE]
    /\ m_defaults = basic_cell
    /\ m_color_defaults = basic_cell
    /\ m_fill_defaults = basic_cell
    /\ resize_window = 0
    /\ m_outgoing = << >>
    /\ m_hyperlink_auto_id = 0
    /\ m_palette = [k \in {} |-> << >>]
    /\ op = [cmd |-> "none", seq |-> << >>]
    /\ tokeniser = cbegin(<< >>, ";")
    /\ mark = NoMark

Init ==
    /\ InitTerminal
    /\ m_allow_hyperlink = FALSE
    /\ focus = {}

\* insert_delta stays within the rows the model follows.
Bounded(t) ==
    /\ t.m_normal_screen.insert_delta <= MaxInsertDelta
    /\ t.m_alternate_screen.insert_delta <= MaxInsertDelta

\* The sequence cmd with parameters seq is dispatched and leaves terminal t.
Dispatch(cmd, seq, t) ==
    /\ Bounded(t)
    /\ Becomes(t)
    /\ op' = [cmd |-> cmd, seq |-> seq]
    /\ UNCHANGED tokeniser

\* No, one or two final parameters.
Params2(values) ==
    {<< >>} \cup {<< F(a) >> : a \in values} \cup {<< F(a), F(b) >> : a, b \in values}

Params1(values) == {<< >>} \cup {<< F(a) >> : a \in values}

\* Parameter values a handler is examined with: default, zero, small
\* values, the last row or column, one past it, and the largest value the
\* parser yields.
Coords == {-1, 0, 1, 2, m_row_count, m_row_count + 1, VTE_SEQ_ARG_VALUE_MASK}

\* The sequences the child sends to move the cursor and to set the region.
CursorSeqs == Params2({-1, 2, VTE_SEQ_ARG_VALUE_MASK})

HomeSeqs == {<< >>, << F(2), F(2) >>, << F(0), F(VTE_SEQ_ARG_VALUE_MASK) >>}

RegionSeqs == {<< >>, << F(2), F(3) >>, << F(2) >>}

Counts == {-1, 0, 1, 2, m_row_count + 1}

DoCUP ==
    /\ \E seq \in CursorSeqs : Dispatch("CUP", seq, CUP(T, seq))
    /\ UNCHANGED << mark, focus >>

DoHVP ==
    /\ \E seq \in HomeSeqs : Dispatch("HVP", seq, HVP(T, seq))
    /\ UNCHANGED << mark, focus >>

DoDECSTBM ==
    /\ \E seq \in RegionSeqs : Dispatch("DECSTBM", seq, DECSTBM(T, seq))
    /\ UNCHANGED << mark, focus >>

\* The characters a screen shows.
Printed(s) ==
    Cardinality({rc \in (1..Len(s.row_data)) \X (1..m_column_count) :
                    /\ rc[2] <= Len(s.row_data[rc[1]])
                    /\ s.row_data[rc[1]][rc[2]].c # 0})

DoGRAPHIC ==
    /\ Printed(Screen(T)) < MaxTyped
    /\ Dispatch("GRAPHIC", << >>, GRAPHIC(T, 65))
    /\ UNCHANGED << mark, focus >>

\* DECSET and DECRST of origin mode.
DoDECOM ==
    /\ \/ Dispatch("SM_DEC", << F(6) >>, SM_DEC(T, << F(6) >>))
       \/ Dispatch("RM_DEC", << F(6) >>, RM_DEC(T, << F(6) >>))
    /\ UNCHANGED << mark, focus >>

DoIL ==
    /\ \E seq \in Params1(Counts) : Dispatch("IL", seq, IL(T, seq))
    /\ UNCHANGED << mark, focus >>

DoDL ==
    /\ \E seq \in Params1(Counts) : Dispatch("DL", seq, DL(T, seq))
    /\ UNCHANGED << mark, focus >>

DoSU ==
    /\ \E seq \in Params1(Counts) : Dispatch("SU", seq, SU(T, seq))
    /\ UNCHANGED << mark, focus >>

DoSD ==
    /\ \E seq \in Params1(Counts) : Dispatch("SD", seq, SD(T, seq))
    /\ UNCHANGED << mark, focus >>

\* Cursor addressing, with the scrolling region and origin mode.
NextCursor == DoCUP \/ DoHVP \/ DoDECSTBM \/ DoDECOM \/ DoGRAPHIC

SpecCursor == Init /\ [][NextCursor]_vars

\* Line insertion, deletion and scrolling on a screen with text.
NextScroll == DoGRAPHIC \/ DoCUP \/ DoDECSTBM \/ DoIL \/ DoDL \/ DoSU \/ DoSD

SpecScroll == Init /\ [][NextScroll]_vars

(***************************************************************************)
(* What is seen of the screen.                                             *)
(***************************************************************************)
\* A row as it shows: the cells the ring does not hold show as empty cells.
Shown(row) == _vte_row_data_fill(row, basic_cell, m_column_count)

\* The rows of a screen as they show, by screen-relative row.
ShownRows(s) == [r \in 0..(m_row_count - 1) |-> Shown(RowAt(s, r))]

ActiveRows == ShownRows(Screen(T))

CursorCol == Screen(T).cursor.col

CursorRow == ScreenRow(T)

InRegion(r) == r >= m_scrolling_region.start /\ r <= m_scrolling_region.end

(***************************************************************************)
(* C1  Scrolling-region containment.                                       *)
(***************************************************************************)
\* C1 as the specification states it: while the scrolling region is
\* restricted, a step that dispatches IL, DL, SU or SD leaves every row
\* outside [start, end] as it was, wherever the cursor is.
C1_RowsOutsideRegionKept ==
    [][(m_scrolling_restricted /\ op'.cmd \in {"IL", "DL", "SU", "SD"})
       => \A r \in 0..(m_row_count - 1) :
              ~InRegion(r) => ActiveRows'[r] = ActiveRows[r]]_vars

(***************************************************************************)
(* C2  CUP and HVP leave the cursor on the screen.                         *)
(***************************************************************************)
InBounds(t) ==
    /\ ScreenRow(t) \in 0..(m_row_count - 1)
    /\ Screen(t).cursor.col \in 0..(m_column_count - 1)
    /\ (t.m_origin_mode /\ t.m_scrolling_restricted)
           => ScreenRow(t) \in t.m_scrolling_region.start..t.m_scrolling_region.end

\* C2: from every reachable state and for every pair of parameters (a value
\* up to 65535, default, or missing), CUP and HVP leave the cursor at a row
\* in [0, row_count-1] and a column in [0, column_count-1], and inside the
\* scrolling region when origin mode and a restricted region are active; so
\* does the state a dispatched CUP or HVP has left.
C2_CursorInBounds ==
    /\ \A seq \in Params2(Coords) : InBounds(CUP(T, seq)) /\ InBounds(HVP(T, seq))
    /\ op.cmd \in {"CUP", "HVP"} => InBounds(T)

\* CUP with the largest parameters has acted under origin mode with a
\* region that ends above the last row: the cursor is on the region's last
\* row and the last column.
C2_Witness ==
    /\ op = [cmd |-> "CUP", seq |-> << F(VTE_SEQ_ARG_VALUE_MASK), F(VTE_SEQ_ARG_VALUE_MASK) >>]
    /\ m_origin_mode /\ m_scrolling_restricted
    /\ m_scrolling_region.start > 0
    /\ m_scrolling_region.end < m_row_count - 1
    /\ CursorRow = m_scrolling_region.end
    /\ CursorCol = m_column_count - 1

(***************************************************************************)
(* C3  CUP's parameter defaulting.                                         *)
(***************************************************************************)
\* CUP with no parameters, with default parameters and with zero parameters.
DefaultingSeqs ==
    {<< >>, << F(-1) >>, << F(-1), F(-1) >>, << F(0) >>, << F(0), F(0) >>,
     << F(0), F(-1) >>, << F(-1), F(0) >>, << F(1) >>, << F(1), F(-1) >>,
     << F(0), F(1) >>}

\* C3: from every reachable state, CUP with no parameters, with default
\* parameters or with zero parameters leaves exactly the terminal state
\* that CUP 1;1 leaves.
C3_DefaultsAreOneOne ==
    \A seq \in DefaultingSeqs : CUP(T, seq) = CUP(T, << F(1), F(1) >>)

\* CUP without parameters has acted with the cursor's home inside a region
\* that starts below the first row, after a character was printed: the
\* state is the one CUP 1;1 leaves.
C3_Witness ==
    /\ op = [cmd |-> "CUP", seq |-> << >>]
    /\ Printed(Screen(T)) > 0
    /\ m_origin_mode /\ m_scrolling_restricted
    /\ CursorRow = m_scrolling_region.start /\ CursorRow > 0
    /\ CursorCol = 0
    /\ T = CUP(T, << F(1), F(1) >>)

(***************************************************************************)
(* SGR parameter lists.                                                    *)
(***************************************************************************)
\* 38;2;r;g;b
Semicolons(k, r, g, b) == << F(k), F(2), F(r), F(g), F(b) >>

\* 38:2:r:g:b
Colons(k, r, g, b) == << N(k), N(2), N(r), N(g), F(b) >>

\* 38:2:cs:r:g:b; 38:2::r:g:b when cs is default
ColonsSpace(k, cs, r, g, b) == << N(k), N(2), N(cs), N(r), N(g), F(b) >>

\* The member of the attributes that 38, 48 and 58 set.
ColourField(k) == IF k = 38 THEN "fore" ELSE IF k = 48 THEN "back" ELSE "deco"

\* The direct colour 38 and 48 (8 bits a component) and 58 (4, 5 and 4
\* bits) store.
DirectColour(k, r, g, b) ==
    IF k = 58 THEN VTE_RGB_COLOR(4, 5, 4, r, g, b) ELSE VTE_RGB_COLOR(8, 8, 8, r, g, b)

\* Components the equivalence is examined with, and values that are no
\* component: default, one past 255 and the parser's largest.
Bytes == {0, 1, 128, 255}

NoBytes == {-1, 256, VTE_SEQ_ARG_VALUE_MASK}

\* Three components of which at least one is no component.
BadTriples ==
    {<< r, g, b >> : r \in NoBytes, g \in {0}, b \in {255}}
    \cup {<< r, g, b >> : r \in {0}, g \in NoBytes, b \in {255}}
    \cup {<< r, g, b >> : r \in {0}, g \in {255}, b \in NoBytes}
    \cup {<< -1, -1, -1 >>}

\* (a) colon forms with a colourspace id that is not default.
BadSpace(k) ==
    {ColonsSpace(k, cs, r, 20, 30) : cs \in {0, 1, 255}, r \in {10, 255}}

\* (b) a component or index that is default or out of range; every
\* parameter of the form is there.
BadValue(k) ==
    {Semicolons(k, c[1], c[2], c[3]) : c \in BadTriples}
    \cup {Colons(k, c[1], c[2], c[3]) : c \in BadTriples}
    \cup {ColonsSpace(k, -1, c[1], c[2], c[3]) : c \in BadTriples}
    \cup {<< F(k), F(5), F(v) >> : v \in NoBytes}
    \cup {<< N(k), N(5), F(v) >> : v \in NoBytes}

\* (b) a component or index that is missing from a colon form: the block
\* of subparameters ends early.
BadShortColons(k) ==
    {<< N(k), F(2) >>, << N(k), N(2), F(10) >>, << N(k), N(2), N(10), F(20) >>,
     << N(k), N(2), N(-1), N(10), F(20) >>, << N(k), F(5) >>}

\* (b) a component or index that is missing from a semicolon form: the
\* parameter list ends early.
BadShortSemicolons(k) ==
    {<< F(k), F(2) >>, << F(k), F(2), F(10) >>, << F(k), F(2), F(10), F(20) >>,
     << F(k), F(5) >>}

Extended == {38, 48, 58}

SgrSeqs ==
    {<< >>, << F(1) >>, << N(4), F(3) >>, << F(31) >>,
     Semicolons(38, 255, 128, 0), Colons(48, 0, 0, 255),
     ColonsSpace(58, -1, 255, 128, 0), ColonsSpace(38, -1, 255, 128, 0),
     << N(38), N(5), F(9) >>, ColonsSpace(38, 1, 10, 20, 30),
     << F(1), F(38), F(2), F(256), F(0), F(0), F(4) >>,
     << F(31), N(58), N(2), N(1), N(2), N(3), N(4), F(5), F(44) >>}

DoSGR ==
    /\ \E seq \in SgrSeqs : Dispatch("SGR", seq, SGR(T, seq))
    /\ UNCHANGED << mark, focus >>

\* Rendition changes.
NextSgr == DoSGR

SpecSgr == Init /\ [][NextSgr]_vars

(***************************************************************************)
(* C4  The three syntaxes of a direct colour.                              *)
(***************************************************************************)
\* C4: from every reachable state, for 38, 48 and 58 and all components
\* r, g, b, the forms k;2;r;g;b, k:2:r:g:b and k:2::r:g:b leave the same
\* terminal state, in which the colour is the direct colour r, g, b.
C4_ColourFormsAgree ==
    \A k \in Extended : \A r \in Bytes, g \in Bytes, b \in Bytes :
        LET semi == SGR(T, Semicolons(k, r, g, b))
        IN  /\ semi.m_defaults.attr[ColourField(k)] = DirectColour(k, r, g, b)
            /\ SGR(T, Colons(k, r, g, b)) = semi
            /\ SGR(T, ColonsSpace(k, -1, r, g, b)) = semi

\* 38:2::255:128:0 has acted on a terminal with other attributes set, and
\* the foreground is what 38;2;255;128;0 and 38:2:255:128:0 leave.
C4_Witness ==
    /\ op = [cmd |-> "SGR", seq |-> ColonsSpace(38, -1, 255, 128, 0)]
    /\ m_defaults.attr.bold
    /\ m_defaults.attr.fore = DirectColour(38, 255, 128, 0)
    /\ m_defaults.attr.fore = SGR(T, Semicolons(38, 255, 128, 0)).m_defaults.attr.fore
    /\ m_defaults.attr.fore = SGR(T, Colons(38, 255, 128, 0)).m_defaults.attr.fore

(***************************************************************************)
(* C5  Colour specifications that fail.                                    *)
(***************************************************************************)
BadSpecs(k) ==
    BadSpace(k) \cup BadValue(k) \cup BadShortColons(k) \cup BadShortSemicolons(k)

\* C5: from every reachable state, a 38, 48 or 58 colour specification
\* (a) in a colon form with a colourspace id that is not default, or (b)
\* with a component or palette index that is default, missing or outside
\* 0..255, in either form, fails to parse, and SGR leaves the attributes,
\* the colour among them, as they were.
C5_BadColourRejected ==
    \A k \in Extended : \A seq \in BadSpecs(k) :
        /\ ~seq_parse_sgr_color(seq, 0, 8, 8, 8).ok
        /\ ~seq_parse_sgr_color(seq, 0, 4, 5, 4).ok
        /\ SGR(T, seq).m_defaults = m_defaults

\* 38:2:1:10:20:30 has acted on a terminal whose foreground was set to a
\* legacy colour: the foreground is still that colour.
C5_Witness ==
    /\ op = [cmd |-> "SGR", seq |-> ColonsSpace(38, 1, 10, 20, 30)]
    /\ m_defaults.attr.fore = VTE_LEGACY_COLORS_OFFSET + 1
    /\ ~seq_parse_sgr_color(op.seq, 0, 8, 8, 8).ok

(***************************************************************************)
(* C6  A failed colour specification inside a parameter list.              *)
(***************************************************************************)
\* Attribute parameters before and after the colour specification.
Around == {<< >>, << F(1) >>, << F(31), F(44) >>, << N(4), F(3) >>}

\* The specifications that fail and are followed by further parameters: a
\* semicolon form is then not cut short.
BadInside(k) == BadSpace(k) \cup BadValue(k) \cup BadShortColons(k)

\* C6: from every reachable state, an SGR list with a failed 38, 48 or 58
\* colour specification leaves the state that the list without that
\* specification leaves: the parameters before and after it take effect
\* and the colour keeps the value they give it.
C6_OnlyTheColourIsSkipped ==
    \A pre \in Around, post \in Around :
        LET without == SGR(T, pre \o post)
        IN  \A k \in Extended :
                /\ \A bad \in BadInside(k) :
                       pre \o post # << >> => SGR(T, pre \o bad \o post) = without
                /\ \A bad \in BadShortSemicolons(k) :
                       (pre # << >> /\ post = << >>) => SGR(T, pre \o bad) = without

\* 1;38;2;256;0;0;4 has acted on a terminal with a legacy foreground: bold
\* and underline are set and the foreground is still that colour.
C6_Witness ==
    /\ op = [cmd |-> "SGR", seq |-> << F(1), F(38), F(2), F(256), F(0), F(0), F(4) >>]
    /\ m_defaults.attr.bold
    /\ m_defaults.attr.underline = 1
    /\ m_defaults.attr.fore = VTE_LEGACY_COLORS_OFFSET + 1
    /\ T = SGR(T, << F(1), F(4) >>)

(***************************************************************************)
(* Saving and restoring the cursor with DEC private mode 1048.             *)
(***************************************************************************)
\* The relative movements the child sends: by one; CUP makes the long ones.
Steps == {<< >>}

\* CUP as HomeSeqs has it, for the specifications that follow the cursor
\* across a save.
DoCUPHome ==
    /\ \E seq \in HomeSeqs : Dispatch("CUP", seq, CUP(T, seq))
    /\ UNCHANGED << mark, focus >>

DoCUU ==
    /\ \E seq \in Steps : Dispatch("CUU", seq, CUU(T, seq))
    /\ UNCHANGED << mark, focus >>

DoCUD ==
    /\ \E seq \in Steps : Dispatch("CUD", seq, CUD(T, seq))
    /\ UNCHANGED << mark, focus >>

DoCUF ==
    /\ \E seq \in Steps : Dispatch("CUF", seq, CUF(T, seq))
    /\ UNCHANGED << mark, focus >>

DoCUB ==
    /\ \E seq \in Steps : Dispatch("CUB", seq, CUB(T, seq))
    /\ UNCHANGED << mark, focus >>

\* DECSET 1048; the mark keeps where the cursor was when it was sent.
DoSaveCursor ==
    /\ Dispatch("SM_DEC", << F(1048) >>, SM_DEC(T, << F(1048) >>))
    /\ mark' = [kind |-> "cursor", row |-> ScreenRow(T), col |-> Screen(T).cursor.col]
    /\ UNCHANGED focus

\* DECRST 1048
DoRestoreCursor ==
    /\ Dispatch("RM_DEC", << F(1048) >>, RM_DEC(T, << F(1048) >>))
    /\ UNCHANGED << mark, focus >>

NextSave ==
    \/ DoSaveCursor \/ DoRestoreCursor
    \/ DoCUPHome \/ DoCUU \/ DoCUD \/ DoCUF \/ DoCUB \/ DoGRAPHIC

SpecSave == Init /\ [][NextSave]_vars

(***************************************************************************)
(* C7  DECSET 1048 ... DECRST 1048.                                        *)
(***************************************************************************)
Restored1048 == op = [cmd |-> "RM_DEC", seq |-> << F(1048) >>] /\ mark.kind = "cursor"

\* C7 as the specification states it: after DECSET 1048, cursor movements
\* and DECRST 1048 the cursor is on exactly the row and the column it had
\* when 1048 was set, the pending-wrap column included.
C7_CursorRestoredExactly ==
    Restored1048 => ScreenRow(T) = mark.row /\ Screen(T).cursor.col = mark.col

\* C7, amended: after DECSET 1048, cursor movements and DECRST 1048 the
\* cursor is on the row it had when 1048 was set, and on the column it had
\* then or, if that was the pending-wrap column, on the last column.
C7_CursorRestoredOnscreen ==
    Restored1048 =>
        /\ ScreenRow(T) = mark.row
        /\ Screen(T).cursor.col = MIN(mark.col, m_column_count - 1)

\* DECRST 1048 has acted after the cursor was saved in the pending-wrap
\* column of a row below the first and then moved.
C7_Witness ==
    /\ Restored1048
    /\ mark.col = m_column_count
    /\ mark.row > 0
    /\ Screen(T).cursor.col = m_column_count - 1
    /\ ScreenRow(T) = mark.row

(***************************************************************************)
(* The alternate screen with DEC private mode 1049.                        *)
(***************************************************************************)
\* The mark ends with the first sequence sent to the normal screen.
KeepMark == mark' = IF m_screen = "m_alternate_screen" THEN mark ELSE NoMark

DoTypeAlt ==
    /\ Printed(Screen(T)) < MaxTyped
    /\ Dispatch("GRAPHIC", << >>, GRAPHIC(T, 65))
    /\ KeepMark
    /\ UNCHANGED focus

\* ED 2, sent to the alternate screen.
DoED ==
    /\ m_screen = "m_alternate_screen"
    /\ Dispatch("ED", << F(2) >>, clear_screen(T))
    /\ KeepMark
    /\ UNCHANGED focus

DoCUPAlt ==
    /\ \E seq \in HomeSeqs : Dispatch("CUP", seq, CUP(T, seq))
    /\ KeepMark
    /\ UNCHANGED focus

\* DECSET 1049; sent from the normal screen, the mark keeps the rows of the
\* normal screen and where the cursor was.
DoEnterAlternate ==
    /\ Dispatch("SM_DEC", << F(1049) >>, SM_DEC(T, << F(1049) >>))
    /\ mark' = IF m_screen = "m_normal_screen"
               THEN [kind |-> "screen", left |-> FALSE,
                     rows |-> ShownRows(m_normal_screen),
                     row |-> ScreenRow(T), col |-> Screen(T).cursor.col]
               ELSE mark
    /\ UNCHANGED focus

\* DECRST 1049; sent from the alternate screen, it ends what the mark began.
DoLeaveAlternate ==
    /\ Dispatch("RM_DEC", << F(1049) >>, RM_DEC(T, << F(1049) >>))
    /\ mark' = IF m_screen = "m_alternate_screen" /\ mark.kind = "screen"
               THEN [mark EXCEPT !.left = TRUE]
               ELSE NoMark
    /\ UNCHANGED focus

NextAlt ==
    \/ DoEnterAlternate \/ DoLeaveAlternate
    \/ DoTypeAlt \/ DoED \/ DoCUPAlt

SpecAlt == Init /\ [][NextAlt]_vars

(***************************************************************************)
(* C8  DECSET 1049 ... DECRST 1049.                                        *)
(***************************************************************************)
Left1049 ==
    /\ op = [cmd |-> "RM_DEC", seq |-> << F(1049) >>]
    /\ mark.kind = "screen" /\ mark.left

FocusSets ==
    {{1}, {6}, {7}, {25}, {47}, {3, 40}, {1000, 1002}, {1047}, {1049}, {2004}}

InitModes ==
    /\ InitTerminal
    /\ m_allow_hyperlink = FALSE
    /\ focus \in FocusSets

\* Whether mode s is on: its flag is set, its integer has its "on" value,
\* or, for the modes that only switch screens, the alternate screen is
\* the active one.  Mode 3 has no state of its own and 1048 is no mode.
HasState(s) == s \in DOMAIN settings /\ s \notin {3, 1048} /\ settings[s] # Ignored

ModeOn(t, s) ==
    LET key == settings[s]
    IN  IF key.boffset # "" THEN t[key.boffset] # FALSE
        ELSE IF key.ioffset # "" THEN t[key.ioffset] = key.tvalue
        ELSE t.m_screen = "m_alternate_screen"

\* By mode, whether it was on when it was last saved.
OnAtSave == IF mark.kind = "modes" THEN mark.on ELSE [k \in {} |-> FALSE]

DoSM_DEC ==
    /\ \E s \in focus : Dispatch("SM_DEC", << F(s) >>, SM_DEC(T, << F(s) >>))
    /\ UNCHANGED << mark, focus >>

DoRM_DEC ==
    /\ \E s \in focus : Dispatch("RM_DEC", << F(s) >>, RM_DEC(T, << F(s) >>))
    /\ UNCHANGED << mark, focus >>

DoXTERM_SPM ==
    /\ \E s \in focus :
           /\ Dispatch("XTERM_SPM", << F(s) >>, XTERM_SPM(T, << F(s) >>))
           /\ mark' = [kind |-> "modes",
                       on |-> [k \in DOMAIN OnAtSave \cup {s} |->
                                  IF k = s THEN HasState(s) /\ ModeOn(T, s)
                                  ELSE OnAtSave[k]]]
    /\ UNCHANGED focus

DoXTERM_RPM ==
    /\ \E s \in focus : Dispatch("XTERM_RPM", << F(s) >>, XTERM_RPM(T, << F(s) >>))
    /\ UNCHANGED << mark, focus >>

NextModes ==
    \/ DoSM_DEC \/ DoRM_DEC \/ DoXTERM_SPM \/ DoXTERM_RPM
    \/ DoCUPHome \/ DoGRAPHIC

SpecModes == InitModes /\ [][NextModes]_vars

(***************************************************************************)
(* C9  Saving a mode touches nothing but the table of saved modes.         *)
(***************************************************************************)
\* Everything of the terminal but m_dec_saved.
Live == [T EXCEPT !.m_dec_saved = << >>]

\* C9 as the specification states it: a step that dispatches XTERM_SPM
\* leaves all live state (mode flags, cursor, screen contents, active
\* screen, window size requests) as it was.
C9_SaveKeepsLiveState == [][op'.cmd = "XTERM_SPM" => Live' = Live]_vars

(***************************************************************************)
(* C10  A mode restored is the mode saved.                                 *)
(***************************************************************************)
\* C10 as the specification states it: after XTERM_RPM of a mode, the mode
\* is on if and only if it was on when it was last saved, and it is off if
\* it was never saved.
C10_RestoredAsSaved ==
    op.cmd = "XTERM_RPM" =>
        LET s == op.seq[1].v
        IN  HasState(s) =>
                ModeOn(T, s) = (s \in DOMAIN OnAtSave /\ OnAtSave[s])

(***************************************************************************)
(* C11  Settings that are unknown or ignored.                              *)
(***************************************************************************)
\* The table entries whose off and on values are equal and that have no
\* hooks.
IgnoredSettings == {2, 8, 12, 30, 35, 67, 1010, 1011, 1035, 1037}

\* Setting ids that are not in the table.
UnknownSettings == {0, 4, 48, 1005, 1050, VTE_SEQ_ARG_VALUE_MASK}

\* A child that uses origin mode next to a setting that is ignored and one
\* that is not in the table.
InitIgnored ==
    /\ InitTerminal
    /\ m_allow_hyperlink = FALSE
    /\ focus = {4, 6, 12}

SpecIgnored == InitIgnored /\ [][NextModes]_vars

\* C11: from every reachable state, decset() with any of set, reset, save
\* and restore on a setting id that is not in the table, or on an entry
\* whose off and on values are equal and that has no hooks, leaves the whole
\* terminal, the saved-settings map included, as it was; so do SM_DEC,
\* RM_DEC, XTERM_SPM and XTERM_RPM with such an id.
C11_IgnoredSettingsChangeNothing ==
    \A s \in IgnoredSettings \cup UnknownSettings :
        /\ \A restore \in BOOLEAN, save \in BOOLEAN, set \in BOOLEAN :
               decset(T, s, restore, save, set) = T
        /\ SM_DEC(T, << F(s) >>) = T
        /\ RM_DEC(T, << F(s) >>) = T
        /\ XTERM_SPM(T, << F(s) >>) = T
        /\ XTERM_RPM(T, << F(s) >>) = T

\* XTERM_SPM of the ignored setting 12 has acted with the cursor away from
\* home: nothing is saved and the cursor is where it was.
C11_Witness ==
    /\ op = [cmd |-> "XTERM_SPM", seq |-> << F(12) >>]
    /\ m_dec_saved = << >>
    /\ CursorRow > 0 /\ CursorCol > 0

(***************************************************************************)
(* The selection of the screen.                                            *)
(***************************************************************************)
\* The modes that switch screens.
ScreenModes == {47, 1047, 1049}

\* A child that uses one of the modes that switch screens.
InitScreens ==
    /\ InitTerminal
    /\ m_allow_hyperlink = FALSE
    /\ focus \in {{m} : m \in ScreenModes}

DoRIS ==
    /\ Dispatch("RIS", << >>, RIS(T))
    /\ UNCHANGED << mark, focus >>

NextScreens ==
    \/ DoSM_DEC \/ DoRM_DEC \/ DoXTERM_SPM \/ DoXTERM_RPM
    \/ DoGRAPHIC \/ DoRIS

SpecScreens == InitScreens /\ [][NextScreens]_vars

\* The handlers that are not a set, reset or restore of a mode that
\* switches screens, applied to the terminal as it is: the terminals they
\* leave.  RIS is not among them.
AfterOtherHandlers ==
    {CUP(T, seq) : seq \in HomeSeqs}
    \cup {HVP(T, seq) : seq \in HomeSeqs}
    \cup {DECSTBM(T, seq) : seq \in RegionSeqs}
    \cup {IL(T, << >>), DL(T, << >>), SU(T, << >>), SD(T, << >>)}
    \cup {CUU(T, << >>), CUD(T, << >>), CUF(T, << >>), CUB(T, << >>)}
    \cup {SGR(T, seq) : seq \in {<< >>, << F(1) >>, Semicolons(38, 255, 128, 0)}}
    \cup {GRAPHIC(T, 65)}
    \cup {XTERM_SPM(T, << F(m) >>) : m \in DOMAIN settings}
    \cup {SM_DEC(T, << F(m) >>) : m \in DOMAIN settings \ ScreenModes}
    \cup {RM_DEC(T, << F(m) >>) : m \in DOMAIN settings \ ScreenModes}
    \cup {XTERM_RPM(T, << F(m) >>) : m \in DOMAIN settings \ ScreenModes}

\* Setting a mode that switches screens selects the alternate screen,
\* resetting it selects the normal screen, and restoring it selects one of
\* the two.
ScreenModesSelect ==
    \A m \in ScreenModes :
        /\ SM_DEC(T, << F(m) >>).m_screen = "m_alternate_screen"
        /\ RM_DEC(T, << F(m) >>).m_screen = "m_normal_screen"
        /\ XTERM_RPM(T, << F(m) >>).m_screen \in {"m_normal_screen", "m_alternate_screen"}

RegionParams ==
    Params2(Coords) \cup {<< N(2), F(3) >>, << N(2), F(3), F(3) >>, << N(1), N(2), F(3) >>}

DoDECSTBMAny ==
    /\ \E seq \in RegionParams : Dispatch("DECSTBM", seq, DECSTBM(T, seq))
    /\ UNCHANGED << mark, focus >>

NextRegion == DoDECSTBMAny \/ DoGRAPHIC \/ DoCUPHome

SpecRegion == Init /\ [][NextRegion]_vars

\* The top and bottom rows (1-based) a list of final parameters asks for.
Top(seq) == IF Len(seq) >= 1 /\ seq[1].v # -1 THEN seq[1].v ELSE 1

Bottom(seq) == IF Len(seq) >= 2 /\ seq[2].v # -1 THEN seq[2].v ELSE m_row_count

\* Bounds that are invalid: the top is no row of the screen, or the region
\* would have fewer than two rows.
InvalidBounds(seq) ==
    Top(seq) < 1 \/ Top(seq) > m_row_count \/ Bottom(seq) <= Top(seq)

\* Bounds that cover the whole screen; a bottom below the screen counts as
\* the last row.
WholeScreen(seq) == Top(seq) = 1 /\ Bottom(seq) >= m_row_count

\* A restricted region has at least two rows, lies on the screen and is
\* not the whole screen.
RegionOk(t) ==
    t.m_scrolling_restricted =>
        /\ 0 <= t.m_scrolling_region.start
        /\ t.m_scrolling_region.start < t.m_scrolling_region.end
        /\ t.m_scrolling_region.end <= m_row_count - 1
        /\ ~(t.m_scrolling_region.start = 0 /\ t.m_scrolling_region.end = m_row_count - 1)

(***************************************************************************)
(* C13  The scrolling region is well formed.                               *)
(***************************************************************************)
\* C13 as the specification states it: after any sequence of DECSTBM with
\* arbitrary parameters, whenever scrolling is restricted the region
\* satisfies 0 <= start < end <= row_count-1 and is not the whole screen;
\* and DECSTBM with invalid bounds or with bounds that cover the whole
\* screen leaves scrolling unrestricted.
C13_RegionWellFormed ==
    /\ RegionOk(T)
    /\ \A seq \in RegionParams : RegionOk(DECSTBM(T, seq))
    /\ \A seq \in Params2(Coords) :
           (InvalidBounds(seq) \/ WholeScreen(seq))
               => ~DECSTBM(T, seq).m_scrolling_restricted

(***************************************************************************)
(* Reports to the child: DA1, DA2, DA3, DECID, DSR.                        *)
(***************************************************************************)
\* The replies the child has not read are followed up to this many.
MaxOutgoing == 1

\* feed_child(text, -1): the text is queued for the child.
feed_child(t, text) == [t EXCEPT !.m_outgoing = Append(@, text)]

\* A reply as g_snprintf() builds it: the format and the numbers printed.
Reply(format, args) == [format |-> format, args |-> args]

\* DA1() that homes the cursor before it answers.
DA1_homing(t, seq) ==
    IF collect1(seq, 0, 0) # 0 THEN t
    ELSE feed_child(home_cursor(t), Reply("ESC[?62;c", << >>))

DA1(t, seq) ==
    IF collect1(seq, 0, 0) # 0 THEN t
    ELSE feed_child(t, Reply("ESC[?62;c", << >>))

\* VERSION, split at its dots.
VERSION == << 0, 50, 2 >>

RECURSIVE ver(_, _)
\* The loop of DA2() over the first i parts of the version.
ver(version, i) == IF i = 0 THEN 0 ELSE ver(version, i - 1) * 100 + version[i]

\* DA2() without the test of its parameter.
DA2_unchecked(t, seq) ==
    feed_child(t, Reply("ESC[>65;%ld;0c", << ver(VERSION, Len(VERSION)) >>))

DA2(t, seq) ==
    IF collect1(seq, 0, 0) # 0 THEN t
    ELSE feed_child(t, Reply("ESC[>65;%ld;0c", << ver(VERSION, Len(VERSION)) >>))

DA3(t, seq) == t

DECID(t, seq) == DA1(t, seq)

\* The cursor position DSR 6 sends: the row and the column of the reply.
cursor_position_reported(t) ==
    LET restricted == t.m_origin_mode /\ t.m_scrolling_restricted
        origin == IF restricted THEN t.m_scrolling_region.start ELSE 0
        rowmax == IF restricted THEN t.m_scrolling_region.end ELSE m_row_count - 1
        rowval == CLAMP(Screen(t).cursor.row - Screen(t).insert_delta - origin, 0, rowmax)
    IN  << rowval + 1, CLAMP(Screen(t).cursor.col + 1, 1, m_column_count) >>

DSR_ECMA(t, seq) ==
    LET request == collect1(seq, 0, -1)
    IN  CASE request = 5 -> feed_child(t, Reply("CSI0n", << >>))
          [] request = 6 -> feed_child(t, Reply("CSI%ld;%ldR", cursor_position_reported(t)))
          [] OTHER -> t

DSR_DEC(t, seq) ==
    LET request == collect1(seq, 0, -1)
    IN  CASE request = 6 -> feed_child(t, Reply("CSI?%ld;%ldR", cursor_position_reported(t)))
          [] request = 15 -> feed_child(t, Reply("CSI?11n", << >>))
          [] request = 25 -> feed_child(t, Reply("CSI?20n", << >>))
          [] request = 26 -> feed_child(t, Reply("CSI?50n", << >>))
          [] OTHER -> t

\* The child reads what was written to it.
ChildReads(t) == [t EXCEPT !.m_outgoing = << >>]

\* The requests the child sends.
Requests == {<< >>, << F(5) >>, << F(6) >>}

\* Every parameter DSR and DA tell apart, and some they do not.
RequestParams ==
    Params1({-1, 0, 1, 4, 5, 6, 7, 15, 25, 26, 27, VTE_SEQ_ARG_VALUE_MASK})
        \cup {<< N(6), F(6) >>, << F(6), F(5) >>, << F(0), F(6) >>}

Room == Len(m_outgoing) < MaxOutgoing

DoDA1 ==
    /\ Room
    /\ Dispatch("DA1", << >>, DA1(T, << >>))
    /\ UNCHANGED << mark, focus >>

DoDA2 ==
    /\ Room
    /\ Dispatch("DA2", << >>, DA2(T, << >>))
    /\ UNCHANGED << mark, focus >>

DoDA3 ==
    /\ Room
    /\ Dispatch("DA3", << >>, DA3(T, << >>))
    /\ UNCHANGED << mark, focus >>

DoDECID ==
    /\ Room
    /\ Dispatch("DECID", << >>, DECID(T, << >>))
    /\ UNCHANGED << mark, focus >>

DoDSR_ECMA ==
    /\ Room
    /\ \E seq \in Requests : Dispatch("DSR_ECMA", seq, DSR_ECMA(T, seq))
    /\ UNCHANGED << mark, focus >>

DoDSR_DEC ==
    /\ Room
    /\ \E seq \in Requests : Dispatch("DSR_DEC", seq, DSR_DEC(T, seq))
    /\ UNCHANGED << mark, focus >>

DoChildReads ==
    /\ m_outgoing # << >>
    /\ Dispatch("read", << >>, ChildReads(T))
    /\ UNCHANGED << mark, focus >>

\* CUP to the home position and to the last row and column.
DoCUPEdge ==
    /\ \E seq \in {<< >>, << F(VTE_SEQ_ARG_VALUE_MASK), F(VTE_SEQ_ARG_VALUE_MASK) >>} :
           Dispatch("CUP", seq, CUP(T, seq))
    /\ UNCHANGED << mark, focus >>

\* DECSET 1048 without the mark.
DoDECSC ==
    /\ Dispatch("SM_DEC", << F(1048) >>, SM_DEC(T, << F(1048) >>))
    /\ UNCHANGED << mark, focus >>

\* The child moves the cursor about a scrolling region, saves and restores
\* it, and asks for reports.
NextReport ==
    \/ DoCUPEdge \/ DoDECSTBM \/ DoDECOM \/ DoGRAPHIC \/ DoDECSC \/ DoRestoreCursor
    \/ DoDA1 \/ DoDA2 \/ DoDA3 \/ DoDECID \/ DoDSR_ECMA \/ DoDSR_DEC \/ DoChildReads

SpecReport == Init /\ [][NextReport]_vars

\* The child asks for reports on a screen without text.
NextRequests ==
    \/ DoCUPEdge \/ DoDECSTBM \/ DoDECOM
    \/ DoDA1 \/ DoDA2 \/ DoDA3 \/ DoDECID \/ DoDSR_ECMA \/ DoDSR_DEC \/ DoChildReads

SpecRequests == Init /\ [][NextRequests]_vars

(***************************************************************************)
(* C14, C15  The cursor position report.                                   *)
(***************************************************************************)
\* The last reply written to the child of terminal t.
LastReply(t) == t.m_outgoing[Len(t.m_outgoing)]

\* The row and the column DSR 6 reports of terminal t.
Reported(t) == LastReply(DSR_ECMA(t, << F(6) >>)).args

\* Origin mode is on and the scrolling region is restricted.
OriginActive == m_origin_mode /\ m_scrolling_restricted

\* C14: the row and the column DSR 6 reports, sent back as the parameters
\* of CUP, leave the cursor where DSR 6 reports the same row and column.
C14_ReportRoundTrips ==
    Reported(CUP(T, << F(Reported(T)[1]), F(Reported(T)[2]) >>)) = Reported(T)

\* C15: both DSR 6 replies carry a column within 1..column_count and a row
\* counted from one: from the start of the region and within
\* 1..end-start+1 when origin mode and a restricted region are active, from
\* the top of the screen and within 1..row_count otherwise.
C15_ReportWithinBounds ==
    \A reply \in {LastReply(DSR_ECMA(T, << F(6) >>)), LastReply(DSR_DEC(T, << F(6) >>))} :
        /\ reply.args[2] \in 1..m_column_count
        /\ IF OriginActive
           THEN /\ reply.args[1] \in 1..(m_scrolling_region.end - m_scrolling_region.start + 1)
                /\ InRegion(CursorRow) =>
                       reply.args[1] = CursorRow - m_scrolling_region.start + 1
           ELSE /\ reply.args[1] \in 1..m_row_count
                /\ reply.args[1] = CursorRow + 1

(***************************************************************************)
(* C16, C17  What the requests change and what they write.                 *)
(***************************************************************************)
\* The terminal apart from what is queued for the child.
Apart(t) == [t EXCEPT !.m_outgoing = << >>]

\* Terminal t is the present terminal with zero or more replies written.
OnlyWritten(t) ==
    /\ Apart(t) = Apart(T)
    /\ Len(t.m_outgoing) >= Len(m_outgoing)
    /\ SubSeq(t.m_outgoing, 1, Len(m_outgoing)) = m_outgoing

\* The number of replies terminal t holds more than the present one.
Written(t) == Len(t.m_outgoing) - Len(m_outgoing)

\* C16: DA1, DA2, DA3, DSR_ECMA, DSR_DEC and DECID, for every parameter and
\* in every state, change nothing of the terminal but what is written to
\* the child.
C16_RequestsChangeNothing ==
    \A seq \in RequestParams :
        /\ OnlyWritten(DA1(T, seq))
        /\ OnlyWritten(DA2(T, seq))
        /\ OnlyWritten(DA3(T, seq))
        /\ OnlyWritten(DECID(T, seq))
        /\ OnlyWritten(DSR_ECMA(T, seq))
        /\ OnlyWritten(DSR_DEC(T, seq))

C16_Witness ==
    /\ op = [cmd |-> "DSR_ECMA", seq |-> << F(6) >>]
    /\ m_outgoing = << Reply("CSI%ld;%ldR", << 2, m_column_count >>) >>
    /\ OriginActive

\* C17 as the specification states it: every DA1, DA2, DA3, DSR and DECID
\* writes a reply to the child.
C17_EveryRequestReplies ==
    \A seq \in RequestParams :
        /\ Written(DA1(T, seq)) > 0
        /\ Written(DA2(T, seq)) > 0
        /\ Written(DA3(T, seq)) > 0
        /\ Written(DECID(T, seq)) > 0
        /\ Written(DSR_ECMA(T, seq)) > 0
        /\ Written(DSR_DEC(T, seq)) > 0

\* One reply if the request is answered, none otherwise.
OneIf(answered) == IF answered THEN 1 ELSE 0

\* C17: DA1, DA2 and DECID write one reply when their parameter is 0 or
\* left out and none otherwise, DA3 writes none, DSR_ECMA writes one reply
\* to the requests 5 and 6 and DSR_DEC one to 6, 15, 25 and 26, and none to
\* any other request.
C17_SupportedRequestsReply ==
    \A seq \in RequestParams :
        /\ Written(DA1(T, seq)) = OneIf(collect1(seq, 0, 0) = 0)
        /\ Written(DA2(T, seq)) = OneIf(collect1(seq, 0, 0) = 0)
        /\ Written(DA3(T, seq)) = 0
        /\ Written(DECID(T, seq)) = OneIf(collect1(seq, 0, 0) = 0)
        /\ Written(DSR_ECMA(T, seq)) = OneIf(collect1(seq, 0, -1) \in {5, 6})
        /\ Written(DSR_DEC(T, seq)) = OneIf(collect1(seq, 0, -1) \in {6, 15, 25, 26})

C17_Witness ==
    /\ op = [cmd |-> "DECID", seq |-> << >>]
    /\ m_outgoing = << Reply("ESC[?62;c", << >>) >>
    /\ CursorRow > 0

(***************************************************************************)
(* OSC 8: hyperlinks.  A string is a sequence of characters and a char*    *)
(* is the empty sequence (nullptr) or a sequence holding one string.       *)
(***************************************************************************)
VTE_HYPERLINK_ID_LENGTH_MAX == 250
VTE_HYPERLINK_URI_LENGTH_MAX == 2083

\* The automatically generated ids are followed up to this number.
MaxAutoId == 3

NULL == << >>

Ptr(str) == << str >>

strlen(str) == Len(str)

\* strncmp(str, prefix, strlen(prefix)) == 0
strncmp0(str, prefix) ==
    Len(str) >= Len(prefix) /\ SubSeq(str, 1, Len(prefix)) = prefix

\* strstr(str, needle): where needle first begins in str, 0 if nowhere.
strstr(str, needle) ==
    LET hits == {i \in 1..(Len(str) - Len(needle) + 1) :
                    SubSeq(str, i, i + Len(needle) - 1) = needle}
    IN  IF hits = {} THEN 0 ELSE CHOOSE i \in hits : \A j \in hits : i <= j

\* *strchrnul(str, c) = '\0': str cut before its first c.
strchrnul_cut(str, c) ==
    LET hits == {i \in 1..Len(str) : str[i] = c}
    IN  IF hits = {} THEN str
        ELSE SubSeq(str, 1, (CHOOSE i \in hits : \A j \in hits : i <= j) - 1)

RECURSIVE Decimal(_)
\* "%ld" of a number that is not negative.
Decimal(n) ==
    LET digit == << "0", "1", "2", "3", "4", "5", "6", "7", "8", "9" >>[(n % 10) + 1]
    IN  IF n < 10 THEN << digit >> ELSE Append(Decimal(n \div 10), digit)

\* The generated id without its colon.
auto_id_plain(n) == Decimal(n)

\* sprintf(idbuf, ":%ld", n)
auto_id(n) == << ":" >> \o Decimal(n)

\* g_strdup_printf("%s;%s", id, uri)
hyperlink_of(id, uri) == id \o << ";" >> \o uri

\* _vte_ring_get_hyperlink_idx(m_screen->row_data, hyperlink): the index the
\* ring has for the hyperlink, a new one for a new hyperlink, 0 for none;
\* the terminal with the ring that has it, and the index.
_vte_ring_get_hyperlink_idx(t, hyperlink) ==
    LET known == Screen(t).hyperlinks
        at == {i \in 1..Len(known) : Ptr(known[i]) = hyperlink}
    IN  IF hyperlink = NULL THEN [t |-> t, idx |-> 0]
        ELSE IF at # {} THEN [t |-> t, idx |-> CHOOSE i \in at : TRUE]
        ELSE [t |-> [t EXCEPT ![t.m_screen].hyperlinks = Append(known, hyperlink[1])],
              idx |-> Len(known) + 1]

\* set_current_hyperlink(): the "id" parameter, before its length is tested.
hyperlink_id(hyperlink_params) ==
    IF hyperlink_params = NULL THEN NULL
    ELSE LET str == hyperlink_params[1]
             at == strstr(str, << ":", "i", "d", "=" >>)
         IN  IF strncmp0(str, << "i", "d", "=" >>)
             THEN Ptr(strchrnul_cut(SubSeq(str, 4, Len(str)), ":"))
             ELSE IF at # 0
             THEN Ptr(strchrnul_cut(SubSeq(str, at + 4, Len(str)), ":"))
             ELSE NULL

\* set_current_hyperlink(): the id and the uri after the tests of their
\* lengths, whether an id is generated, and the hyperlink asked of the ring.
hyperlink_parts(t, hyperlink_params, uri0) ==
    LET uri == IF uri0 # NULL /\ strlen(uri0[1]) > VTE_HYPERLINK_URI_LENGTH_MAX
               THEN Ptr(<< >>) ELSE uri0
        id0 == hyperlink_id(hyperlink_params)
        id1 == IF id0 # NULL /\ strlen(id0[1]) > VTE_HYPERLINK_ID_LENGTH_MAX
               THEN Ptr(<< >>) ELSE id0
        linked == uri # NULL /\ uri[1] # << >>
        generated == linked /\ (id1 = NULL \/ id1[1] = << >>)
        id == IF generated THEN Ptr(auto_id(t.m_hyperlink_auto_id)) ELSE id1
    IN  [linked |-> linked,
         generated |-> generated,
         id |-> id,
         hyperlink |-> IF linked THEN Ptr(hyperlink_of(id[1], uri[1])) ELSE NULL]

\* set_current_hyperlink() without the test of m_allow_hyperlink.
set_current_hyperlink_always(t, hyperlink_params, uri) ==
    LET parts == hyperlink_parts(t, hyperlink_params, uri)
        t1 == IF parts.generated
              THEN [t EXCEPT !.m_hyperlink_auto_id = @ + 1] ELSE t
        got == _vte_ring_get_hyperlink_idx(t1, parts.hyperlink)
    IN  [got.t EXCEPT !.m_defaults.attr.hyperlink_idx = got.idx]

set_current_hyperlink(t, hyperlink_params, uri) ==
    IF ~t.m_allow_hyperlink THEN t
    ELSE LET parts == hyperlink_parts(t, hyperlink_params, uri)
             t1 == IF parts.generated
                   THEN [t EXCEPT !.m_hyperlink_auto_id = @ + 1] ELSE t
             got == _vte_ring_get_hyperlink_idx(t1, parts.hyperlink)
         IN  [got.t EXCEPT !.m_defaults.attr.hyperlink_idx = got.idx]

\* params: the strings of the OSC after its number, as char*.
seq_set_current_hyperlink(t, params) ==
    IF Len(params) >= 2 THEN set_current_hyperlink(t, params[1], params[2])
    ELSE set_current_hyperlink(t, NULL, NULL)

\* A string of n characters c.
Str(n, c) == [i \in 1..n |-> c]

IdIs == << "i", "d", "=" >>

\* The parameters before the URI: none, empty, an id alone, among other
\* parameters, one that is empty, one that begins with a colon as the
\* generated ones do, none that is named id, and one that is too long.
LinkParams ==
    {NULL, Ptr(<< >>), Ptr(IdIs \o << "a" >>), Ptr(IdIs \o << "0" >>),
     Ptr(IdIs \o << "a", ":", "x", "=", "y" >>),
     Ptr(<< "x", "=", "y", ":" >> \o IdIs \o << "a" >>),
     Ptr(IdIs), Ptr(IdIs \o << ":", "0" >>), Ptr(<< "x" >> \o IdIs \o << "a" >>),
     Ptr(IdIs \o Str(VTE_HYPERLINK_ID_LENGTH_MAX, "a")),
     Ptr(IdIs \o Str(VTE_HYPERLINK_ID_LENGTH_MAX + 1, "a"))}

\* The URIs: none, empty, two short ones, the longest and one too long.
LinkUris ==
    {NULL, Ptr(<< >>), Ptr(<< "u" >>), Ptr(<< "0", "u" >>),
     Ptr(Str(VTE_HYPERLINK_URI_LENGTH_MAX, "u")),
     Ptr(Str(VTE_HYPERLINK_URI_LENGTH_MAX + 1, "u"))}

\* The parameter lists of OSC 8 that are examined.
LinkLists ==
    {<< >>, << NULL >>, << Ptr(<< "u" >>) >>}
        \cup {<< p, u >> : p \in LinkParams, u \in LinkUris}
        \cup {<< NULL, Ptr(<< "u" >>), Ptr(<< "v" >>) >>}

\* The OSC 8 the child sends: a link without an id, with an id, with one
\* too long, the end of a link, and an OSC 8 cut short.
LinkSent ==
    {<< NULL, Ptr(<< "u" >>) >>, << Ptr(IdIs \o << "a" >>), Ptr(<< "u" >>) >>,
     << Ptr(IdIs \o Str(VTE_HYPERLINK_ID_LENGTH_MAX + 1, "a")), Ptr(<< "u" >>) >>,
     << NULL, Ptr(<< >>) >>, << NULL >>}

\* The hyperlinks made so far, as the ids they were given.
IdsGiven == IF mark.kind = "links" THEN mark.ids ELSE {}

\* The id an OSC 8 with these parameters is given, if it makes a link.
IdOf(t, params) ==
    IF Len(params) >= 2 /\ t.m_allow_hyperlink
    THEN LET parts == hyperlink_parts(t, params[1], params[2])
         IN  IF parts.linked THEN {parts.id[1]} ELSE {}
    ELSE {}

DoOSC8 ==
    /\ m_hyperlink_auto_id < MaxAutoId
    /\ \E params \in LinkSent :
           /\ Dispatch("OSC8", params, seq_set_current_hyperlink(T, params))
           /\ mark' = [kind |-> "links", ids |-> IdsGiven \cup IdOf(T, params)]
    /\ UNCHANGED focus

InitLinks ==
    /\ InitTerminal
    /\ m_allow_hyperlink \in BOOLEAN
    /\ focus = {1047}

\* The child makes hyperlinks on both screens.
NextLinks == DoOSC8 \/ DoSM_DEC \/ DoRM_DEC

SpecLinks == InitLinks /\ [][NextLinks]_vars

(***************************************************************************)
(* C18, C19  The id of a hyperlink and the OSC 8 that makes none.          *)
(***************************************************************************)
\* The parameters carry an id that is used: one that is there, not empty
\* and not too long.
UsableId(hyperlink_params) ==
    LET id == hyperlink_id(hyperlink_params)
    IN  id # NULL /\ id[1] # << >> /\ strlen(id[1]) <= VTE_HYPERLINK_ID_LENGTH_MAX

\* The URI makes a link: it is there, not empty and not too long.
UsableUri(uri) ==
    uri # NULL /\ uri[1] # << >> /\ strlen(uri[1]) <= VTE_HYPERLINK_URI_LENGTH_MAX

\* The hyperlinks the rings of the two screens hold.
Hyperlinks(t) ==
    {t.m_normal_screen.hyperlinks[i] : i \in 1..Len(t.m_normal_screen.hyperlinks)}
        \cup {t.m_alternate_screen.hyperlinks[i] : i \in 1..Len(t.m_alternate_screen.hyperlinks)}

\* The hyperlink the terminal is writing with, none if its index is 0.
Current(t) ==
    IF t.m_defaults.attr.hyperlink_idx = 0 THEN NULL
    ELSE Ptr(Screen(t).hyperlinks[t.m_defaults.attr.hyperlink_idx])

\* The ids that are ever generated, well past those the model reaches.
GeneratedIds == {auto_id(n) : n \in 0..(10 * MaxAutoId + 100)}

\* C18: where hyperlinks are allowed, an OSC 8 with a URI and without a
\* usable id is given a generated id that no earlier OSC 8 of the terminal
\* was given, and writes with a hyperlink "id;uri" that neither screen has
\* yet, whatever the URI; and the id of an OSC 8 with a usable id is none
\* of the generated ids.
C18_GeneratedIdsAreNew ==
    m_allow_hyperlink =>
        \A p \in LinkParams, u \in LinkUris :
            LET parts == hyperlink_parts(T, p, u)
                after == seq_set_current_hyperlink(T, << p, u >>)
            IN  UsableUri(u) =>
                    IF UsableId(p)
                    THEN /\ ~parts.generated
                         /\ parts.id[1] \notin GeneratedIds
                         /\ Current(after) = parts.hyperlink
                    ELSE /\ parts.generated
                         /\ parts.id[1] \in GeneratedIds
                         /\ parts.id[1] \notin IdsGiven
                         /\ parts.hyperlink[1] \notin Hyperlinks(T)
                         /\ Current(after) = parts.hyperlink

C18_Witness ==
    /\ op = [cmd |-> "OSC8", seq |-> << NULL, Ptr(<< "u" >>) >>]
    /\ IdsGiven = {auto_id(0), auto_id(1), << "a" >>}
    /\ Current(T) = Ptr(hyperlink_of(auto_id(1), << "u" >>))
    /\ hyperlink_of(auto_id(0), << "u" >>) \in Hyperlinks(T)

\* C19: where hyperlinks are allowed, an OSC 8 whose URI is empty, missing
\* or too long leaves the terminal writing without a hyperlink (index 0),
\* and an id that is too long does what no id does; where they are not
\* allowed OSC 8 changes nothing.
C19_NoLinkWithoutUri ==
    \A params \in LinkLists :
        LET after == seq_set_current_hyperlink(T, params)
        IN  IF m_allow_hyperlink
            THEN /\ (Len(params) < 2 \/ ~UsableUri(params[2])) =>
                        after.m_defaults.attr.hyperlink_idx = 0
                 /\ (/\ Len(params) >= 2
                     /\ hyperlink_id(params[1]) # NULL
                     /\ strlen(hyperlink_id(params[1])[1]) > VTE_HYPERLINK_ID_LENGTH_MAX) =>
                        after = seq_set_current_hyperlink(T, << NULL, params[2] >>)
            ELSE after = T

C19_Witness ==
    /\ op = [cmd |-> "OSC8", seq |-> << NULL, Ptr(<< >>) >>]
    /\ m_defaults.attr.hyperlink_idx = 0
    /\ Len(Screen(T).hyperlinks) = 2

(***************************************************************************)
(* OSC 4: the palette.  An unsigned long is a sequence of 16-bit limbs,    *)
(* the lowest first: four of them where a long has 64 bits, two where it   *)
(* has 32.                                                                 *)
(***************************************************************************)
BEL_C0 == "BEL"
ST_C0 == "ST"

\* The widths of unsigned long among the builds.
LongBits == {32, 64}

RECURSIVE g_strsplit_from(_, _, _, _)
\* g_strsplit(): the pieces of str from position i on, piece being the
\* part of the present piece read so far.
g_strsplit_from(str, delimiter, i, piece) ==
    IF i > Len(str) THEN << piece >>
    ELSE IF str[i] = delimiter
    THEN << piece >> \o g_strsplit_from(str, delimiter, i + 1, << >>)
    ELSE g_strsplit_from(str, delimiter, i + 1, Append(piece, str[i]))

\* g_strsplit(str, delimiter, 0); the empty string has no pieces.
g_strsplit(str, delimiter) ==
    IF str = << >> THEN << >> ELSE g_strsplit_from(str, delimiter, 1, << >>)

RECURSIVE MulAdd(_, _, _, _)
\* limbs * m + carry from limb i on: the limbs and what does not fit.
MulAdd(limbs, i, m, carry) ==
    IF i > Len(limbs) THEN [limbs |-> limbs, carry |-> carry]
    ELSE LET v == limbs[i] * m + carry
         IN  MulAdd([limbs EXCEPT ![i] = v % 65536], i + 1, m, v \div 65536)

\* -limbs in unsigned arithmetic.
Negated(limbs) == MulAdd([i \in 1..Len(limbs) |-> 65535 - limbs[i]], 1, 1, 1).limbs

RECURSIVE strtoul_digits(_, _, _, _)
\* The digits of str from position i on, added to acc.
strtoul_digits(str, i, acc, range) ==
    IF i > Len(str) \/ ~isdigit(str[i]) THEN [value |-> acc, range |-> range]
    ELSE LET r == MulAdd(acc, 1, 10, DigitValue(str[i]))
         IN  strtoul_digits(str, i + 1, r.limbs, range \/ r.carry > 0)

RECURSIVE SkipSpace(_, _)
SkipSpace(str, i) ==
    IF i <= Len(str) /\ str[i] = " " THEN SkipSpace(str, i + 1) ELSE i

\* strtoul(str, NULL, 10) where unsigned long has bits bits: white space,
\* a sign, digits; ULONG_MAX when the digits are out of range.
strtoul(str, bits) ==
    LET start == SkipSpace(str, 1)
        signed == start <= Len(str) /\ str[start] \in {"+", "-"}
        minus == signed /\ str[start] = "-"
        r == strtoul_digits(str, IF signed THEN start + 1 ELSE start,
                            [i \in 1..(bits \div 16) |-> 0], FALSE)
    IN  IF r.range THEN [i \in 1..(bits \div 16) |-> 65535]
        ELSE IF minus THEN Negated(r.value)
        ELSE r.value

\* guint idx = an unsigned long: its low 32 bits.
guint(limbs) == << limbs[1], limbs[2] >>

\* idx >= VTE_DEFAULT_FG
idx_out_of_palette(idx) == idx[2] > 0 \/ idx[1] >= VTE_DEFAULT_FG

\* vte::color::rgb::parse(): the colour of a specification, nullptr if it
\* is none.  The specifications the model knows.
color_parse(spec) ==
    CASE spec = << "r", "e", "d" >> -> Ptr(<< 65535, 0, 0 >>)
      [] spec = << "#", "0", "0", "f" >> -> Ptr(<< 0, 0, 65535 >>)
      [] OTHER -> NULL

\* The colour the application has set for an index: a grey by index.
api_color(idx) == << idx * 257, idx * 257, idx * 257 >>

\* get_color(idx): the colour of the first source that has one.
get_color(t, idx) ==
    IF idx \in DOMAIN t.m_palette THEN t.m_palette[idx] ELSE api_color(idx)

\* set_color(idx, VTE_COLOR_SOURCE_ESCAPE, color)
set_color(t, idx, color) ==
    [t EXCEPT !.m_palette =
        [k \in DOMAIN t.m_palette \cup {idx} |->
            IF k = idx THEN color ELSE t.m_palette[k]]]

\* One turn of the loop of change_color(): the pair pairs[i], pairs[i + 1].
change_color_pair(t, index, spec, terminator, bits) ==
    LET idx == guint(strtoul(index, bits))
        color == color_parse(spec)
    IN  IF idx_out_of_palette(idx) THEN t
        ELSE IF color # NULL THEN set_color(t, idx[1], color[1])
        ELSE IF spec = << "?" >>
        THEN feed_child(t, Reply("OSC4;%u;rgb:%04x/%04x/%04x%s",
                                 << idx[1] >> \o get_color(t, idx[1]) \o << terminator >>))
        ELSE t

RECURSIVE change_color_from(_, _, _, _, _)
\* The loop of change_color() from the pair at i on.
change_color_from(t, pairs, i, terminator, bits) ==
    IF i + 1 > Len(pairs) THEN t
    ELSE change_color_from(change_color_pair(t, pairs[i], pairs[i + 1], terminator, bits),
                           pairs, i + 2, terminator, bits)

\* change_color(params, terminator); str is what params.string_at(0, str)
\* yields, nullptr where it fails.  The "refresh-window" signal is left out.
change_color(t, str, terminator, bits) ==
    IF str = NULL THEN t
    ELSE change_color_from(t, g_strsplit(str[1], ";"), 1, terminator, bits)

seq_change_color_bel(t, str, bits) == change_color(t, str, BEL_C0, bits)

seq_change_color_st(t, str, bits) == change_color(t, str, ST_C0, bits)

RECURSIVE Joined(_)
\* The elements with a semicolon between them.
Joined(elements) ==
    IF Len(elements) = 0 THEN << >>
    ELSE IF Len(elements) = 1 THEN elements[1]
    ELSE elements[1] \o << ";" >> \o Joined(Tail(elements))

Red == << "r", "e", "d" >>
Blue == << "#", "0", "0", "f" >>
Query == << "?" >>

\* The palette changes the child sends.
ColorSent ==
    {Ptr(Joined(<< Decimal(i), c >>)) : i \in {0, 1, 255}, c \in {Red, Query}}
        \cup {Ptr(Joined(<< Decimal(1), Blue, Decimal(1), Query >>)),
              Ptr(Joined(<< Decimal(256), Red >>)), Ptr(Red)}

DoChangeColorBel ==
    /\ Room
    /\ \E str \in ColorSent, bits \in LongBits :
           Dispatch("OSC4 BEL", str, seq_change_color_bel(T, str, bits))
    /\ UNCHANGED << mark, focus >>

DoChangeColorSt ==
    /\ Room
    /\ \E str \in ColorSent, bits \in LongBits :
           Dispatch("OSC4 ST", str, seq_change_color_st(T, str, bits))
    /\ UNCHANGED << mark, focus >>

\* The child changes the palette and asks for its colours.
NextPalette == DoChangeColorBel \/ DoChangeColorSt \/ DoChildReads

SpecPalette == Init /\ [][NextPalette]_vars

(***************************************************************************)
(* C20  What OSC 4 changes and what it answers.                            *)
(***************************************************************************)
\* Indices of the palette, and indices past it in decimal: 256, 65536,
\* 2^32, 2^32 + 1 and 2^64.
InPalette == {0, 1, 255}

PastPalette ==
    {Decimal(VTE_DEFAULT_FG), Decimal(65536),
     << "4", "2", "9", "4", "9", "6", "7", "2", "9", "6" >>,
     << "4", "2", "9", "4", "9", "6", "7", "2", "9", "7" >>,
     << "1", "8", "4", "4", "6", "7", "4", "4", "0", "7", "3", "7", "0", "9",
        "5", "5", "1", "6", "1", "6" >>}

\* The answer to the question after the colour of index n.
ColorReply(t, n, terminator) ==
    Reply("OSC4;%u;rgb:%04x/%04x/%04x%s", << n >> \o get_color(t, n) \o << terminator >>)

\* C20: in a palette change a pair of an index within 0..255 and "?"
\* writes one reply with the index, its present colour and the terminator
\* of the request and changes nothing else; a pair of such an index and a
\* colour changes the colour of that index and nothing else; a pair with
\* an index of 256 or more, and an element without a partner at the end,
\* change nothing and write nothing.
C20_PaletteChange ==
    \A terminator \in {BEL_C0, ST_C0}, bits \in LongBits :
        /\ \A n \in InPalette :
               /\ change_color(T, Ptr(Joined(<< Decimal(n), Query >>)), terminator, bits)
                      = feed_child(T, ColorReply(T, n, terminator))
               /\ \A c \in {Red, Blue} :
                      LET changed == change_color(T, Ptr(Joined(<< Decimal(n), c >>)),
                                                  terminator, bits)
                      IN  /\ get_color(changed, n) = color_parse(c)[1]
                          /\ \A k \in 0..(VTE_DEFAULT_FG - 1) :
                                 k # n => get_color(changed, k) = get_color(T, k)
                          /\ [changed EXCEPT !.m_palette = m_palette] = T
               /\ \A e \in {Red, Query, Decimal(n)} :
                      change_color(T, Ptr(Joined(<< Decimal(n), Red, e >>)), terminator, bits)
                          = change_color(T, Ptr(Joined(<< Decimal(n), Red >>)), terminator, bits)
        /\ \A index \in PastPalette, c \in {Red, Query} :
               change_color(T, Ptr(Joined(<< index, c >>)), terminator, bits) = T
        /\ \A e \in {Red, Query, Decimal(1)} :
               change_color(T, Ptr(e), terminator, bits) = T

(***************************************************************************)
(* Erasing: EL, ED, ECH and DCH.  A character two columns wide is a cell   *)
(* with attr.columns = 2 followed by a cell with the same character and    *)
(* attr.fragment set.                                                      *)
(***************************************************************************)
\* Where the cursor's row is in row_data.
CursorIndex(s) == s.cursor.row - s.insert_delta + 1

\* The cells of the cursor's row; the ring holds that row.
CursorRowData(t) == Screen(t).row_data[CursorIndex(Screen(t))]

\* The terminal with the cells of the cursor's row replaced.
WithCursorRow(t, row) ==
    [t EXCEPT ![t.m_screen].row_data =
        SubSeq(@, 1, CursorIndex(Screen(t)) - 1) \o << row >>
            \o SubSeq(@, CursorIndex(Screen(t)) + 1, Len(@))]

\* *_vte_row_data_get_writable(row, col) = cell
set_cell(row, col, cell) ==
    SubSeq(row, 1, col) \o << cell >> \o SubSeq(row, col + 2, Len(row))

\* _vte_row_data_remove(row, col)
_vte_row_data_remove(row, col) ==
    SubSeq(row, 1, col) \o SubSeq(row, col + 2, Len(row))

\* _vte_row_data_append(row, cell)
_vte_row_data_append(row, cell) == Append(row, cell)

\* A cell made a space one column wide that keeps its other attributes.
Spaced(cell) ==
    [c |-> 32, attr |-> [cell.attr EXCEPT !.fragment = FALSE, !.columns = 1]]

RECURSIVE cleanup_left(_, _)
\* cleanup_fragments(): the left hand side, from column col leftwards up to
\* the cell that begins the character.
cleanup_left(row, col) ==
    IF col < 0 THEN row
    ELSE IF ~row[col + 1].attr.fragment THEN set_cell(row, col, Spaced(row[col + 1]))
    ELSE cleanup_left(set_cell(row, col, Spaced(row[col + 1])), col - 1)

\* cleanup_fragments(start, end) on a row: the columns start..end-1 are
\* about to be overwritten; a character that reaches into them from the
\* left or out of them to the right loses its cells outside of them.
cleanup_fragments_row(row, start, end) ==
    LET fragment(col) == col < Len(row) /\ row[col + 1].attr.fragment
        right == IF fragment(end) THEN set_cell(row, end, Spaced(row[end + 1])) ELSE row
    IN  IF fragment(start) THEN cleanup_left(right, start - 1) ELSE right

\* cleanup_fragments(start, end): on the cursor's row.
cleanup_fragments(t, start, end) ==
    LET t1 == ensure_row(t)
    IN  WithCursorRow(t1, cleanup_fragments_row(CursorRowData(t1), start, end))

\* m_fill_defaults.attr.back() != VTE_DEFAULT_BG
not_default_bg(t) == t.m_fill_defaults.attr.back # VTE_DEFAULT_BG

RECURSIVE clear_to_bol_from(_, _, _, _)
\* The loop of clear_to_bol() from column i on.
clear_to_bol_from(row, i, col, cell) ==
    IF i > col THEN row
    ELSE clear_to_bol_from(IF i < Len(row) THEN set_cell(row, i, cell)
                           ELSE _vte_row_data_append(row, cell),
                           i + 1, col, cell)

\* clear_to_bol() without the column of the cursor among those cleaned up.
clear_to_bol_short(t) ==
    LET t1 == ensure_row(ensure_cursor_is_onscreen(t))
        col == Screen(t1).cursor.col
        t2 == cleanup_fragments(t1, 0, col)
    IN  WithCursorRow(t2, clear_to_bol_from(CursorRowData(t2), 0, col, t.m_color_defaults))

clear_to_bol(t) ==
    LET t1 == ensure_row(ensure_cursor_is_onscreen(t))
        col == Screen(t1).cursor.col
        t2 == cleanup_fragments(t1, 0, col + 1)
    IN  WithCursorRow(t2, clear_to_bol_from(CursorRowData(t2), 0, col, t.m_color_defaults))

\* The rows from..to of rows (positions in row_data) made the row given.
clear_rows(rows, from, to, row) ==
    IF to < from THEN rows
    ELSE SubSeq(rows, 1, from - 1) \o [i \in 1..(to - from + 1) |-> row]
             \o SubSeq(rows, to + 1, Len(rows))

RECURSIVE clear_below_fill(_, _)
\* The last loop of clear_below_current(), from row i on.
clear_below_fill(t, i) ==
    LET s == Screen(t)
        t1 == IF _vte_ring_contains(s, i) THEN t ELSE ring_append(t, FALSE)
        s1 == Screen(t1)
        k == IF _vte_ring_contains(s, i) THEN i - s.insert_delta + 1 ELSE Len(s1.row_data)
        t2 == IF not_default_bg(t)
              THEN [t1 EXCEPT ![t.m_screen].row_data =
                       SubSeq(@, 1, k - 1)
                           \o << _vte_row_data_fill(@[k], t.m_fill_defaults, m_column_count) >>
                           \o SubSeq(@, k + 1, Len(@))]
              ELSE t1
    IN  IF i >= s.insert_delta + m_row_count THEN t ELSE clear_below_fill(t2, i + 1)

clear_below_current(t) ==
    LET t1 == ensure_cursor_is_onscreen(t)
        s == Screen(t1)
        col == s.cursor.col
        held == s.cursor.row < _vte_ring_next(s)
        t2 == IF held /\ Len(CursorRowData(t1)) > col
              THEN cleanup_fragments(t1, col, Len(CursorRowData(t1))) ELSE t1
        t3 == IF held
              THEN WithCursorRow(t2, _vte_row_data_shrink(CursorRowData(t2), col)) ELSE t2
        t4 == [t3 EXCEPT ![t.m_screen].row_data =
                  clear_rows(@, CursorIndex(s) + 1, Len(@), << >>)]
    IN  clear_below_fill(t4, s.cursor.row)

\* clear_to_eol() with its commented-out ensure_cursor_is_onscreen() called.
clear_to_eol_ensured(t) ==
    LET t1 == ensure_row(ensure_cursor_is_onscreen(t))
        col == Screen(t1).cursor.col
        t2 == IF Len(CursorRowData(t1)) > col
              THEN LET t3 == cleanup_fragments(t1, col, Len(CursorRowData(t1)))
                   IN  WithCursorRow(t3, _vte_row_data_shrink(CursorRowData(t3), col))
              ELSE t1
    IN  IF not_default_bg(t)
        THEN WithCursorRow(t2, _vte_row_data_fill(CursorRowData(t2), t.m_fill_defaults,
                                                  m_column_count))
        ELSE t2

clear_to_eol(t) ==
    LET t1 == ensure_row(t)
        col == Screen(t1).cursor.col
        t2 == IF Len(CursorRowData(t1)) > col
              THEN LET t3 == cleanup_fragments(t1, col, Len(CursorRowData(t1)))
                   IN  WithCursorRow(t3, _vte_row_data_shrink(CursorRowData(t3), col))
              ELSE t1
    IN  IF not_default_bg(t)
        THEN WithCursorRow(t2, _vte_row_data_fill(CursorRowData(t2), t.m_fill_defaults,
                                                  m_column_count))
        ELSE t2

clear_current_line(t) ==
    IF _vte_ring_next(Screen(t)) > Screen(t).cursor.row
    THEN WithCursorRow(t, _vte_row_data_fill(<< >>, t.m_fill_defaults, m_column_count))
    ELSE t

clear_above_current(t) ==
    [t EXCEPT ![t.m_screen].row_data =
        clear_rows(@, 1, MIN(CursorIndex(Screen(t)) - 1, Len(@)),
                   _vte_row_data_fill(<< >>, t.m_fill_defaults, m_column_count))]

\* drop_scrollback(): the rows above insert_delta, which the model does not
\* keep, are dropped.
drop_scrollback(t) == t

\* seq[0]: the first parameter, -1 if it has none.
erase_in_display(t, seq) ==
    LET mode == param(seq, 0, -1)
    IN  CASE mode \in {-1, 0} -> clear_below_current(t)
          [] mode = 1 -> clear_to_bol(clear_above_current(t))
          [] mode = 2 -> clear_screen(t)
          [] mode = 3 -> drop_scrollback(t)
          [] OTHER -> t

erase_in_line(t, seq) ==
    LET mode == param(seq, 0, -1)
    IN  CASE mode \in {-1, 0} -> clear_to_eol(t)
          [] mode = 1 -> clear_to_bol(t)
          [] mode = 2 -> clear_current_line(t)
          [] OTHER -> t

ED(t, seq) == erase_in_display(t, seq)

EL(t, seq) == erase_in_line(t, seq)

RECURSIVE erase_characters_from(_, _, _, _, _)
\* The loop of erase_characters() from its turn i on.
erase_characters_from(row, i, count, cursor_col, cell) ==
    IF i >= count THEN row
    ELSE erase_characters_from(
             IF cursor_col + i < Len(row) THEN set_cell(row, cursor_col + i, cell)
             ELSE _vte_row_data_fill(row, cell, cursor_col + i + 1),
             i + 1, count, cursor_col, cell)

erase_characters(t, count) ==
    LET t1 == ensure_row(ensure_cursor_is_onscreen(t))
        col == Screen(t1).cursor.col
        t2 == cleanup_fragments(t1, col, col + count)
    IN  WithCursorRow(t2, erase_characters_from(CursorRowData(t2), 0, count, col,
                                                t.m_color_defaults))

ECH(t, seq) == erase_characters(t, collect1_minmax(seq, 0, 1, 1, 65535))

delete_character(t) ==
    LET t1 == ensure_cursor_is_onscreen(t)
        s == Screen(t1)
        col == s.cursor.col
        t2 == cleanup_fragments(t1, col, col + 1)
        removed == _vte_row_data_remove(CursorRowData(t2), col)
    IN  IF _vte_ring_next(s) > s.cursor.row /\ col < Len(CursorRowData(t1))
        THEN WithCursorRow(t2, IF not_default_bg(t)
                               THEN _vte_row_data_fill(removed, t.m_fill_defaults,
                                                       m_column_count)
                               ELSE removed)
        ELSE t1

RECURSIVE delete_characters(_, _)
\* The loop of DCH.
delete_characters(t, value) ==
    IF value <= 0 THEN t ELSE delete_characters(delete_character(t), value - 1)

DCH(t, seq) ==
    delete_characters(t, collect1_minmax(seq, 0, 1, 1,
                                         m_column_count - Screen(t).cursor.col))

\* The characters the child prints: "a", one column wide, and a CJK
\* ideograph, two columns wide, with the default attributes.
Narrow == [c |-> 97, attr |-> basic_attr]

WideHead == [c |-> 19968, attr |-> [basic_attr EXCEPT !.columns = 2]]

WideTail == [c |-> 19968, attr |-> [basic_attr EXCEPT !.columns = 2, !.fragment = TRUE]]

RECURSIVE PrintedRows(_)
\* The rows of n columns that printing such characters leaves.
PrintedRows(n) ==
    IF n = 0 THEN {<< >>}
    ELSE {<< Narrow >> \o r : r \in PrintedRows(n - 1)}
             \cup (IF n >= 2 THEN {<< WideHead, WideTail >> \o r : r \in PrintedRows(n - 2)}
                   ELSE {})

\* The printed rows that fit the screen and hold a wide character.
WideRows ==
    {r \in UNION {PrintedRows(n) : n \in 0..m_column_count} :
        \E k \in 1..Len(r) : r[k].attr.columns = 2}

\* The fields of the terminal after construction other than the normal
\* screen.
InitOffNormalScreen ==
    /\ m_screen = "m_normal_screen"
    /\ m_alternate_screen = InitScreen
    /\ m_origin_mode = FALSE
    /\ m_scrolling_restricted = FALSE
    /\ m_scrolling_region = [start |-> 0, end |-> 0]
    /\ m_insert_mode = FALSE
    /\ m_sendrecv_mode = TRUE
    /\ m_autowrap = TRUE
    /\ m_reverse_mode = FALSE
    /\ m_cursor_mode = VTE_KEYMODE_NORMAL
    /\ m_keypad_mode = FALSE
    /\ m_mouse_tracking_mode = MOUSE_TRACKING_NONE
    /\ m_cursor_visible = TRUE
    /\ m_deccolm_mode = FALSE
    /\ m_focus_tracking_mode = FALSE
    /\ m_mouse_xterm_extension = FALSE
    /\ m_alternate_screen_scroll = TRUE
    /\ m_mouse_urxvt_extension = FALSE
    /\ m_meta_sends_escape = TRUE
    /\ m_bracketed_paste_mode = FALSE
    /\ m_tabstops = default_tabstops
    /\ m_dec_saved = [k \in {} |-> FALSE]
    /\ m_defaults = basic_cell
    /\ m_color_defaults = basic_cell
    /\ m_fill_defaults = basic_cell
    /\ resize_window = 0
    /\ m_outgoing = << >>
    /\ m_allow_hyperlink = FALSE
    /\ m_hyperlink_auto_id = 0
    /\ m_palette = [k \in {} |-> << >>]

\* The child has printed the same characters, wide ones among them, onto
\* two rows; the cursor is behind the last character.
InitErase ==
    /\ InitOffNormalScreen
    /\ op = [cmd |-> "none", seq |-> << >>]
    /\ tokeniser = cbegin(<< >>, ";")
    /\ mark = NoMark
    /\ focus = {}
    /\ \E printed \in WideRows :
           m_normal_screen = [InitScreen EXCEPT !.row_data = << printed, printed >>,
                                                !.cursor = [row |-> 1, col |-> Len(printed)]]

\* The wide characters of a row, as the columns where they begin.
WideAt(row) == {col \in 0..(Len(row) - 1) : row[col + 1] = WideHead}

\* The columns of the cursor's row that a sequence is to erase.
ErasedColumns(t, cmd, seq) ==
    LET mode == param(seq, 0, -1)
        col == Screen(t).cursor.col
        onscreen == MIN(col, m_column_count - 1)
        all == 0..m_column_count
    IN  CASE cmd = "EL" /\ mode \in {-1, 0} -> {k \in all : k >= col}
          [] cmd = "ED" /\ mode \in {-1, 0} -> {k \in all : k >= onscreen}
          [] cmd \in {"EL", "ED"} /\ mode = 1 -> 0..onscreen
          [] cmd = "EL" /\ mode = 2 -> all
          [] cmd = "ECH" ->
                onscreen..(onscreen + collect1_minmax(seq, 0, 1, 1, 65535) - 1)
          [] cmd = "DCH" ->
                onscreen..(onscreen + collect1_minmax(seq, 0, 1, 1, m_column_count - col) - 1)
          [] OTHER -> {}

\* What an erasure is to leave of the wide characters of the cursor's row:
\* how many of them lie outside the erased columns, and whether one of them
\* lies partly inside.
ErasureOf(t, cmd, seq) ==
    LET row == RowAt(Screen(t), ScreenRow(t))
        erased == ErasedColumns(t, cmd, seq)
    IN  [kind |-> "erase",
         kept |-> Cardinality({col \in WideAt(row) : {col, col + 1} \cap erased = {}}),
         cut |-> \E col \in WideAt(row) : Cardinality({col, col + 1} \cap erased) = 1]

EraseCounts == {-1, 0, 1, 2, m_column_count + 1}

Erasures == {"EL", "ED", "ECH", "DCH"}

\* The parameters the erasures are sent with.
EraseSeqs(cmd) ==
    CASE cmd = "EL" -> Params1({0, 1, 2})
      [] cmd = "ED" -> Params1({0, 1})
      [] OTHER -> Params1(EraseCounts)

\* The terminal an erasure leaves.
Erase(t, cmd, seq) ==
    CASE cmd = "EL" -> EL(t, seq)
      [] cmd = "ED" -> ED(t, seq)
      [] cmd = "ECH" -> ECH(t, seq)
      [] cmd = "DCH" -> DCH(t, seq)

\* A run is followed up to its first erasure and the moves after it.
Unerased == mark.kind # "erase"

DoEL ==
    /\ Unerased
    /\ \E seq \in EraseSeqs("EL") :
           /\ Dispatch("EL", seq, EL(T, seq))
           /\ mark' = ErasureOf(T, "EL", seq)
    /\ UNCHANGED focus

DoEDPart ==
    /\ Unerased
    /\ \E seq \in EraseSeqs("ED") :
           /\ Dispatch("ED", seq, ED(T, seq))
           /\ mark' = ErasureOf(T, "ED", seq)
    /\ UNCHANGED focus

DoECH ==
    /\ Unerased
    /\ \E seq \in EraseSeqs("ECH") :
           /\ Dispatch("ECH", seq, ECH(T, seq))
           /\ mark' = ErasureOf(T, "ECH", seq)
    /\ UNCHANGED focus

DoDCH ==
    /\ Unerased
    /\ \E seq \in EraseSeqs("DCH") :
           /\ Dispatch("DCH", seq, DCH(T, seq))
           /\ mark' = ErasureOf(T, "DCH", seq)
    /\ UNCHANGED focus

\* SGR 41 and SGR 49: a background colour and the default one.
DoSGRBack ==
    /\ \E seq \in {<< F(41) >>, << F(49) >>} : Dispatch("SGR", seq, SGR(T, seq))
    /\ UNCHANGED << mark, focus >>

\* The child moves over printed rows and erases parts of them.
NextErase == DoCUP \/ DoSGRBack \/ DoEL \/ DoEDPart \/ DoECH \/ DoDCH

SpecErase == InitErase /\ [][NextErase]_vars

(***************************************************************************)
(* C21  Erasing takes wide characters whole.                               *)
(***************************************************************************)
\* Every fragment follows the cell that begins its character, and every
\* cell that begins a wide character is followed by its fragment.
Unbroken(row) ==
    \A k \in 1..Len(row) :
        /\ row[k].attr.fragment =>
               k > 1 /\ row[k - 1].attr.columns = 2 /\ ~row[k - 1].attr.fragment
                     /\ row[k - 1].c = row[k].c
        /\ (row[k].attr.columns = 2 /\ ~row[k].attr.fragment) =>
               k < Len(row) /\ row[k + 1].attr.fragment
        /\ row[k].c = WideHead.c => row[k].attr.columns = 2

\* C21: from every state, those after an erasure among them, EL, ED 0,
\* ED 1, ECH and DCH leave no row with a fragment without the cell that
\* begins its character or with such a cell without its fragment, no cell
\* with a wide character's code that is not part of one, and of the wide
\* characters of the cursor's row exactly those that lay wholly outside
\* the erased columns.
C21_ErasedWhole ==
    \A cmd \in Erasures :
        \A seq \in EraseSeqs(cmd) :
            LET after == Erase(T, cmd, seq)
            IN  /\ \A k \in 1..Len(Screen(after).row_data) :
                       Unbroken(Screen(after).row_data[k])
                /\ Cardinality(WideAt(RowAt(Screen(after), ScreenRow(after))))
                       = ErasureOf(T, cmd, seq).kept

\* A deletion has cut through a wide character.
C21_Witness == op.cmd = "DCH" /\ mark.cut

(***************************************************************************)
(* C22  The templates follow the colours of the rendition and nothing      *)
(* else of it.                                                             *)
(***************************************************************************)
\* The colours of a cell's attributes.
Colours(cell) == << cell.attr.fore, cell.attr.back, cell.attr.deco >>

\* A cell with its colours made the default ones.
Uncoloured(cell) ==
    [cell EXCEPT !.attr.fore = VTE_DEFAULT_FG, !.attr.back = VTE_DEFAULT_BG,
                 !.attr.deco = VTE_DEFAULT_FG]

\* The SGR sequences examined: none, every single parameter up to 108,
\* pairs of a reset, an attribute, a colour and an unknown parameter, the
\* underline styles, and the sequences the child sends, which have the
\* extended colours.
SgrAll ==
    {<< >>} \cup {<< F(p) >> : p \in -1..108}
        \cup {<< F(p), F(q) >> : p, q \in {-1, 0, 1, 3, 22, 31, 39, 44, 49, 99, 107}}
        \cup {<< N(4), F(style) >> : style \in 0..4}
        \cup SgrSeqs

\* C22: after every SGR sequence, one without parameters among them, the
\* erase template and the fill template have the colours of the live
\* attributes and no other attribute set.
C22_TemplatesTakeColoursOnly ==
    \A seq \in SgrAll :
        LET after == SGR(T, seq)
        IN  /\ Colours(after.m_color_defaults) = Colours(after.m_defaults)
            /\ Colours(after.m_fill_defaults) = Colours(after.m_defaults)
            /\ Uncoloured(after.m_color_defaults) = basic_cell
            /\ Uncoloured(after.m_fill_defaults) = basic_cell

\* An SGR sequence has left bold text in a colour.
C22_Witness ==
    /\ op.cmd = "SGR"
    /\ m_defaults.attr.bold
    /\ m_defaults.attr.fore # VTE_DEFAULT_FG
    /\ Colours(m_color_defaults) = Colours(m_defaults)
    /\ ~m_fill_defaults.attr.bold

(***************************************************************************)
(* Walking a StringTokeniser from cbegin() to cend().                      *)
(***************************************************************************)
\* The strings given to the tokeniser have at most this many characters.
MaxLen == 5

\* The characters of the strings: the usual separator, a letter, a digit.
TokenChars == {";", "a", "7"}

Separators == {";", "a"}

RECURSIVE StringsOf(_)
\* The strings of n characters.
StringsOf(n) ==
    IF n = 0 THEN {<< >>}
    ELSE {Append(str, c) : str \in StringsOf(n - 1), c \in TokenChars}

TokenStrings == UNION {StringsOf(n) : n \in 0..MaxLen}

\* The tokens read so far, each with the rest of the string it was read at.
Seen == IF mark.kind = "tokens" THEN mark.seen ELSE << >>

AtEnd == ~differs(tokeniser, cend(tokeniser.m_string, tokeniser.m_separator))

\* A tokeniser over a string and its iterator at cbegin().
InitTokens ==
    /\ InitOffNormalScreen
    /\ m_normal_screen = InitScreen
    /\ op = [cmd |-> "none", seq |-> << >>]
    /\ focus = {}
    /\ \E s \in TokenStrings, separator \in Separators : tokeniser = cbegin(s, separator)
    /\ mark = [kind |-> "tokens", seen |-> << >>]

\* One turn of for (it = cbegin(); it != cend(); ++it): the token, the
\* rest of the string and the token's number are read, and the iterator
\* moves on.
DoNextToken ==
    /\ ~AtEnd
    /\ tokeniser' = increment(tokeniser)
    /\ mark' = [kind |-> "tokens",
                seen |-> Append(Seen, [token |-> token(tokeniser),
                                       remaining |-> string_remaining(tokeniser),
                                       number |-> number(tokeniser)])]
    /\ op' = [cmd |-> "operator++", seq |-> << >>]
    /\ Becomes(T)
    /\ UNCHANGED focus

\* The walk starts again from cbegin().
DoBeginAgain ==
    /\ Seen # << >>
    /\ tokeniser' = cbegin(tokeniser.m_string, tokeniser.m_separator)
    /\ mark' = [kind |-> "tokens", seen |-> << >>]
    /\ op' = [cmd |-> "cbegin", seq |-> << >>]
    /\ Becomes(T)
    /\ UNCHANGED focus

NextTokens == DoNextToken \/ DoBeginAgain

SpecTokens == InitTokens /\ [][NextTokens]_vars

(***************************************************************************)
(* C23  The tokens of a string.                                            *)
(***************************************************************************)
RECURSIVE JoinedBy(_, _)
\* The strings with the separator between them.
JoinedBy(strings, separator) ==
    IF Len(strings) = 0 THEN << >>
    ELSE IF Len(strings) = 1 THEN strings[1]
    ELSE strings[1] \o << separator >> \o JoinedBy(Tail(strings), separator)

\* How often the character is in the string.
Occurrences(str, c) == Cardinality({i \in 1..Len(str) : str[i] = c})

\* The tokens read so far.
SeenTokens == [i \in 1..Len(Seen) |-> Seen[i].token]

\* C23: walking a StringTokeniser over s from begin to end yields as many
\* tokens as s has separators, and one more; no token holds the separator;
\* the tokens with the separator between them are s (so separators at the
\* start, at the end and next to each other yield empty tokens, and the
\* empty string yields one empty token); and string_remaining() at a token
\* is that token and the later ones with the separator between them.
C23_TokensSplitTheString ==
    LET s == tokeniser.m_string
        c == tokeniser.m_separator
    IN  /\ \A i \in 1..Len(Seen) :
               /\ Occurrences(Seen[i].token, c) = 0
               /\ Seen[i].token \o (IF i < Len(Seen) \/ ~AtEnd THEN << c >> ELSE << >>)
                      \o (IF i < Len(Seen) THEN Seen[i + 1].remaining
                          ELSE IF ~AtEnd THEN string_remaining(tokeniser) ELSE << >>)
                      = Seen[i].remaining
        /\ Len(Seen) > 0 => Seen[1].remaining = s
        /\ Len(Seen) <= Occurrences(s, c) + 1
        /\ AtEnd =>
               /\ Len(Seen) = Occurrences(s, c) + 1
               /\ JoinedBy(SeenTokens, c) = s

\* A walk has ended that read an empty token at the start, one between two
\* separators, one with characters, and an empty one at the end.
C23_Witness ==
    /\ AtEnd
    /\ Len(Seen) = 5
    /\ Seen[1].token = << >>
    /\ Seen[2].token = << >>
    /\ Seen[3].token # << >>
    /\ Seen[5].token = << >>

(***************************************************************************)
(* C24  The number of a token.                                             *)
(***************************************************************************)
AllDigits(str) == \A i \in 1..Len(str) : isdigit(str[i])

RECURSIVE Significant(_)
\* The digits without the zeros they begin with.
Significant(digits) ==
    IF digits # << >> /\ digits[1] = "0" THEN Significant(Tail(digits)) ELSE digits

RECURSIVE ValueOf(_)
\* The number that a few digits write.
ValueOf(digits) ==
    IF digits = << >> THEN 0
    ELSE ValueOf(SubSeq(digits, 1, Len(digits) - 1)) * 10 + DigitValue(digits[Len(digits)])

\* The digits write a number up to 0xFFFF: they are fewer than five after
\* their zeros, or five that make no more.
FitsUint16(digits) ==
    \/ Len(Significant(digits)) < 5
    \/ Len(Significant(digits)) = 5 /\ ValueOf(Significant(digits)) <= 65535

\* A string from its characters.
Chars(text) ==
    CASE text = "" -> << >>
      [] text = "0" -> << "0" >>
      [] text = "00" -> << "0", "0" >>
      [] text = "9" -> << "9" >>
      [] text = "65535" -> << "6", "5", "5", "3", "5" >>
      [] text = "65536" -> << "6", "5", "5", "3", "6" >>
      [] text = "99999" -> << "9", "9", "9", "9", "9" >>
      [] text = "100000" -> << "1", "0", "0", "0", "0", "0" >>
      [] text = "4294967296" -> << "4", "2", "9", "4", "9", "6", "7", "2", "9", "6" >>
      [] text = "4294967297" -> << "4", "2", "9", "4", "9", "6", "7", "2", "9", "7" >>
      [] text = "12a" -> << "1", "2", "a" >>
      [] text = "a12" -> << "a", "1", "2" >>
      [] text = "-1" -> << "-", "1" >>
      [] text = "+1" -> << "+", "1" >>
      [] text = " 1" -> << " ", "1" >>
      [] text = "1 " -> << "1", " " >>
      [] text = "99999a" -> << "9", "9", "9", "9", "9", "a" >>

\* The tokens number() is examined with, and each of them behind zeros.
NumberTokens ==
    LET plain == {Chars(text) : text \in {"", "0", "00", "9", "65535", "65536", "99999",
                                          "100000", "4294967296", "4294967297", "12a",
                                          "a12", "-1", "+1", " 1", "1 ", "99999a"}}
    IN  plain \cup {<< "0", "0", "0" >> \o tok : tok \in plain}

\* number() on the iterator is as the claim says.
NumberAsClaimed(it) ==
    LET tok == token(it)
        r == number(it)
    IN  IF tok = << >> THEN r = [ok |-> TRUE, v |-> -1]
        ELSE IF AllDigits(tok) /\ FitsUint16(tok) THEN r = [ok |-> TRUE, v |-> ValueOf(tok)]
        ELSE ~r.ok

\* C24: number() succeeds exactly when the token is empty, with the value
\* -1, or is made of decimal digits that write a number up to 0xFFFF, with
\* that number as the value, zeros at the start allowed; it fails for a
\* token with another character and for digits that write a larger number.
\* This holds for the token the iterator is at, for a token that is the
\* whole string, and for one between two others.
C24_NumberParsesUint16 ==
    /\ ~AtEnd => NumberAsClaimed(tokeniser)
    /\ \A tok \in NumberTokens :
           /\ NumberAsClaimed(cbegin(tok, ";"))
           /\ NumberAsClaimed(increment(cbegin(<< "1", ";" >> \o tok \o << ";", "2" >>, ";")))

\* A walk has read the number of a token of digits, failed on a token of
\* digits that is too large and on one with a letter, and read an empty
\* token.
C24_Witness ==
    /\ \E i \in 1..Len(Seen) : Seen[i].number = [ok |-> TRUE, v |-> 77]
    /\ \E i \in 1..Len(Seen) : Seen[i].token = << >> /\ Seen[i].number.v = -1
    /\ \E i \in 1..Len(Seen) : ~Seen[i].number.ok

(***************************************************************************)
(* The accessors of vte::parser::Sequence on parsed parameter lists.       *)
(***************************************************************************)
VTE_PARSER_ARG_MAX == 16

\* capacity(): the number of elements of the args array of struct vte_seq.
capacity == VTE_PARSER_ARG_MAX

\* The parser keeps the first capacity() parameters of a sequence and drops
\* the ones after them.
vte_parser_args(params) ==
    SubSeq(params, 1, MIN(Len(params), VTE_PARSER_ARG_MAX))

\* The positions where param, param_nonfinal, param_default and collect1
\* index m_seq->args: args[idx] stands behind the test idx < size().
arg_reads_capacity(seq, idx) == IF ult(idx, capacity) THEN {idx} ELSE {}

arg_reads(seq, idx) == IF ult(idx, size(seq)) THEN {idx} ELSE {}

\* The positions next(idx) reads: one param_nonfinal per turn of its loop.
RECURSIVE next_reads(_, _)
next_reads(seq, idx) ==
    arg_reads(seq, idx)
        \cup (IF param_nonfinal(seq, idx) THEN next_reads(seq, uinc(idx)) ELSE {})

\* The loop of collect over n slots: the values stored, the idx it ends on
\* and the positions read.
RECURSIVE collect_from(_, _, _, _)
collect_from(seq, idx, n, default_v) ==
    IF n = 0
    THEN [values |-> << >>, idx |-> idx, reads |-> {}]
    ELSE LET rest == collect_from(seq, next(seq, idx), n - 1, default_v)
         IN  [values |-> << param(seq, idx, default_v) >> \o rest.values,
              idx    |-> rest.idx,
              reads  |-> arg_reads(seq, idx) \cup next_reads(seq, idx) \cup rest.reads]

\* collect that is content when idx came at least as far as the slots.
collect_reached(seq, start_idx, n, default_v) ==
    LET c == collect_from(seq, start_idx, n, default_v)
    IN  [values |-> c.values,
         ok     |-> ule(n, usub(c.idx, start_idx)),
         reads  |-> c.reads]

collect(seq, start_idx, n, default_v) ==
    LET c == collect_from(seq, start_idx, n, default_v)
    IN  [values |-> c.values,
         ok     |-> usub(c.idx, start_idx) = n,
         reads  |-> c.reads]

\* The loop of collect_subparams: *i = param(idx++, default_v).
RECURSIVE collect_subparams_from(_, _, _, _)
collect_subparams_from(seq, idx, n, default_v) ==
    IF n = 0
    THEN [values |-> << >>, idx |-> idx, reads |-> {}]
    ELSE LET rest == collect_subparams_from(seq, uinc(idx), n - 1, default_v)
         IN  [values |-> << param(seq, idx, default_v) >> \o rest.values,
              idx    |-> rest.idx,
              reads  |-> arg_reads(seq, idx) \cup rest.reads]

collect_subparams(seq, start_idx, n, default_v) ==
    LET c == collect_subparams_from(seq, start_idx, n, default_v)
    IN  [values |-> c.values,
         ok     |-> ule(c.idx, next(seq, start_idx)),
         reads  |-> c.reads \cup next_reads(seq, start_idx)]

\* The parameter lists that arrive: up to MaxParams parameters, and lists
\* around the capacity of the args array.
MaxParams == 3

ArgChoices == {F(-1), F(1), F(3), N(5)}

RECURSIVE ListsOf(_)
ListsOf(n) ==
    IF n = 0 THEN {<< >>}
    ELSE LET shorter == ListsOf(n - 1)
         IN  shorter \cup {l \o << a >> : l \in {s \in shorter : Len(s) = n - 1},
                                          a \in ArgChoices}

\* n parameters 1..n, the one at position 16 followed by ':' or not.
LongList(n, nf) ==
    [i \in 1..n |-> IF i = VTE_PARSER_ARG_MAX /\ nf THEN N(-1) ELSE F(i)]

Arriving ==
    ListsOf(MaxParams)
        \cup {LongList(n, nf) : n \in (VTE_PARSER_ARG_MAX - 1)..(VTE_PARSER_ARG_MAX + 2),
                                nf \in BOOLEAN}

\* Index values: the small ones, the ones around capacity() and the ones
\* around the two ends of unsigned int and around 2^31.
Indices ==
    (0..(VTE_PARSER_ARG_MAX + 2))
        \cup {INT_MAX - 1, INT_MAX, INT_MIN, INT_MIN + 1, UINT_MAX - 1, UINT_MAX}

ReadIndices == {0, 1, 2, UINT_MAX}

Defaults == {-1, 0, 1}

\* min_v and max_v, in order and out of order.
Ranges == {<< 1, 5 >>, << 2, 2 >>, << 5, 1 >>, << 0, 65535 >>, << -1, 0 >>}

ReadRanges == {<< 1, 4 >>, << 4, 2 >>}

Slots == 0..3

Accessors ==
    {"param", "param_minmax", "param_nonfinal", "param_default", "next",
     "collect1", "collect1_minmax", "collect", "collect_subparams"}

\* What a call of an accessor gives, and the positions of args it reads.
Call1(seq, accessor, idx, default_v, range, n) ==
    CASE accessor = "param" ->
           [value |-> param(seq, idx, default_v), reads |-> arg_reads(seq, idx)]
      [] accessor = "param_minmax" ->
           [value |-> param_minmax(seq, idx, default_v, range[1], range[2]),
            reads |-> arg_reads(seq, idx)]
      [] accessor = "param_nonfinal" ->
           [value |-> param_nonfinal(seq, idx), reads |-> arg_reads(seq, idx)]
      [] accessor = "param_default" ->
           [value |-> param_default(seq, idx), reads |-> arg_reads(seq, idx)]
      [] accessor = "next" ->
           [value |-> next(seq, idx), reads |-> next_reads(seq, idx)]
      [] accessor = "collect1" ->
           [value |-> collect1(seq, idx, default_v), reads |-> arg_reads(seq, idx)]
      [] accessor = "collect1_minmax" ->
           [value |-> collect1_minmax(seq, idx, default_v, range[1], range[2]),
            reads |-> arg_reads(seq, idx)]
      [] accessor = "collect" ->
           LET c == collect(seq, idx, n, default_v)
           IN  [value |-> [values |-> c.values, ok |-> c.ok], reads |-> c.reads]
      [] accessor = "collect_subparams" ->
           LET c == collect_subparams(seq, idx, n, default_v)
           IN  [value |-> [values |-> c.values, ok |-> c.ok], reads |-> c.reads]

\* Which of the arguments of Call1 an accessor takes.
Takes(accessor, default_v, range, n) ==
    /\ accessor \in {"param_nonfinal", "param_default", "next"} => default_v = -1
    /\ accessor \notin {"param_minmax", "collect1_minmax"} => range = << 1, 4 >>
    /\ accessor \in {"param_minmax", "collect1_minmax"} => default_v = 1
    /\ accessor \in {"collect", "collect_subparams"} => default_v = -1 /\ n > 0
    /\ accessor \notin {"collect", "collect_subparams"} => n = 0

Read == mark.kind = "read"

\* The parser hands over a sequence once the one before it is handled.
DoParse ==
    /\ op.cmd # "parse"
    /\ \E params \in Arriving : Dispatch("parse", vte_parser_args(params), T)
    /\ mark' = NoMark
    /\ UNCHANGED focus

\* The handler calls an accessor of the sequence it was handed; the accessors
\* are const, so one call is recorded for each sequence.
DoRead ==
    /\ op.cmd = "parse" /\ ~Read
    /\ \E accessor \in Accessors, idx \in ReadIndices, default_v \in {-1, 1},
          range \in ReadRanges, n \in Slots :
          /\ Takes(accessor, default_v, range, n)
          /\ LET c == Call1(op.seq, accessor, idx, default_v, range, n)
             IN  mark' = [kind |-> "read", accessor |-> accessor, idx |-> idx,
                          default_v |-> default_v, range |-> range, n |-> n,
                          value |-> c.value, reads |-> c.reads]
    /\ Bounded(T)
    /\ Becomes(T)
    /\ UNCHANGED << op, tokeniser, focus >>

\* The sequence handed over is a CUP.
DoCUPParsed ==
    /\ op.cmd = "parse"
    /\ Dispatch("CUP", op.seq, CUP(T, op.seq))
    /\ mark' = NoMark
    /\ UNCHANGED focus

NextSequence == DoParse \/ DoRead \/ DoCUPParsed

SpecSequence == Init /\ [][NextSequence]_vars

\* idx is a position of the sequence.
InRange(seq, idx) == idx \in 0..(size(seq) - 1)

Stored(seq, idx) == seq[idx + 1]

---------------------------------------------------------------------------
\* C25: param(idx, default) gives the stored value when idx < size() and the
\* argument is not default-valued, and default otherwise; the four-argument
\* form gives that result clamped into [min, max] when min <= max, and max
\* when min > max.
C25_ParamValueOrDefault ==
    /\ \A idx \in Indices, default_v \in Defaults :
          LET v == param(op.seq, idx, default_v)
          IN  /\ v = IF InRange(op.seq, idx) /\ Stored(op.seq, idx).v # -1
                     THEN Stored(op.seq, idx).v
                     ELSE default_v
              /\ \A range \in Ranges :
                    LET c == param_minmax(op.seq, idx, default_v, range[1], range[2])
                    IN  IF range[1] <= range[2]
                        THEN /\ c \in range[1]..range[2]
                             /\ v \in range[1]..range[2] => c = v
                             /\ v < range[1] => c = range[1]
                             /\ v > range[2] => c = range[2]
                        ELSE c = range[2]
    /\ Read /\ mark.accessor = "param" =>
          mark.value = IF InRange(op.seq, mark.idx) /\ Stored(op.seq, mark.idx).v # -1
                       THEN Stored(op.seq, mark.idx).v
                       ELSE mark.default_v

\* A stored 5 read as 4 by the range 1..4, and read as 2 by the range 4..2.
C25_Witness ==
    /\ Read /\ mark.accessor = "param_minmax"
    /\ InRange(op.seq, mark.idx) /\ Stored(op.seq, mark.idx).v = 5
    /\ mark.range = << 4, 2 >> /\ mark.value = 2

---------------------------------------------------------------------------
\* A sequence is handed over and no accessor is called yet.
Handed == op.cmd = "parse" /\ ~Read

\* The parameter blocks of a list, told from the list alone.  The block at
\* position i ends on the first position from i on that does not hold a
\* parameter followed by ':'; a position past the end is a block of its own.
BlockLast(seq, i) ==
    IF ~InRange(seq, i) THEN i
    ELSE CHOOSE j \in i..size(seq) :
            /\ \A k \in i..(j - 1) : Stored(seq, k).nf
            /\ ~(InRange(seq, j) /\ Stored(seq, j).nf)

\* Where the k-th block counted from start begins; positions are unsigned
\* int, so the position after UINT_MAX is 0.
RECURSIVE BlockStart(_, _, _)
BlockStart(seq, start, k) ==
    IF k = 1 THEN start ELSE uinc(BlockLast(seq, BlockStart(seq, start, k - 1)))

\* The first value of the block at i, default_v when it is missing or unset.
FirstValue(seq, i, default_v) ==
    IF InRange(seq, i) /\ Stored(seq, i).v # -1 THEN Stored(seq, i).v ELSE default_v

\* The block at i is one final parameter, there or missing.
SingleFinal(seq, i) == BlockLast(seq, i) = i

\* C26: collect(start, N slots, default) stores in slot k the first value of
\* the k-th parameter block counted from start, default when that block is
\* missing or default-valued, and returns true iff none of the N collected
\* blocks has sub-parameters; a block beyond the end of the list counts as a
\* single default parameter.
C26_CollectBlocks ==
    /\ Handed => \A start \in Indices, n \in Slots, default_v \in Defaults :
          LET c == collect(op.seq, start, n, default_v)
          IN  /\ Len(c.values) = n
              /\ \A k \in 1..n :
                    c.values[k] = FirstValue(op.seq, BlockStart(op.seq, start, k), default_v)
              /\ c.ok <=> \A k \in 1..n : SingleFinal(op.seq, BlockStart(op.seq, start, k))
              /\ ~InRange(op.seq, start) /\ n = 1 => c.values = << default_v >> /\ c.ok
    /\ Read /\ mark.accessor = "collect" =>
          /\ \A k \in 1..mark.n :
                mark.value.values[k]
                    = FirstValue(op.seq, BlockStart(op.seq, mark.idx, k), mark.default_v)
          /\ mark.value.ok
                <=> \A k \in 1..mark.n : SingleFinal(op.seq, BlockStart(op.seq, mark.idx, k))
    /\ LET c == collect(op.seq, 0, 2, -1)
       IN  collect2(op.seq, 0, -1) = [a |-> c.values[1], b |-> c.values[2], ok |-> c.ok]

\* 5:1;3 collected into two slots: 5 and 3, and false for the sub-parameter.
C26_Witness ==
    /\ Read /\ mark.accessor = "collect" /\ mark.idx = 0 /\ mark.n = 2
    /\ op.seq = << N(5), F(1), F(3) >>
    /\ mark.value = [values |-> << 5, 3 >>, ok |-> FALSE]

---------------------------------------------------------------------------
\* C27: collect1(idx, default[, min, max]) gives the parameter's value only
\* when idx < size() and the parameter is final and not default-valued; in
\* every other case it gives default, clamped in the four-argument form.  So
\* a CUP whose row parameter carries sub-parameters (5:1;3) uses row 1.
C27_Collect1FinalOnly ==
    /\ Handed => \A idx \in Indices, default_v \in Defaults :
          LET v == collect1(op.seq, idx, default_v)
              own == InRange(op.seq, idx) /\ ~Stored(op.seq, idx).nf
                         /\ Stored(op.seq, idx).v # -1
          IN  /\ v = IF own THEN Stored(op.seq, idx).v ELSE default_v
              /\ \A range \in Ranges :
                    collect1_minmax(op.seq, idx, default_v, range[1], range[2])
                        = MinMax(v, range[1], range[2])
    /\ Read /\ mark.accessor = "collect1" =>
          mark.value = IF /\ InRange(op.seq, mark.idx)
                          /\ ~Stored(op.seq, mark.idx).nf
                          /\ Stored(op.seq, mark.idx).v # -1
                       THEN Stored(op.seq, mark.idx).v
                       ELSE mark.default_v
    /\ op.cmd = "CUP" /\ size(op.seq) > 0 /\ op.seq[1].nf =>
          Screen(T).cursor.row = Screen(T).insert_delta

\* CUP 5:1;3 is handled: the cursor is on row 1 (the top row), column 3.
C27_Witness ==
    /\ op = [cmd |-> "CUP", seq |-> << N(5), F(1), F(3) >>]
    /\ Screen(T).cursor.row = Screen(T).insert_delta
    /\ Screen(T).cursor.col = 2

---------------------------------------------------------------------------
\* The positions of the parsed sequence.
Positions(seq) == 0..(size(seq) - 1)

\* C28: a parsed sequence holds at most VTE_PARSER_ARG_MAX arguments, and for
\* every index value param, param_nonfinal, param_default, collect1, next,
\* collect and collect_subparams read args only at positions below size();
\* an index out of range gives default, false and true-for-default.
C28_AccessorsStayInside ==
    /\ size(op.seq) <= VTE_PARSER_ARG_MAX
    /\ Handed => \A idx \in Indices :
          /\ arg_reads(op.seq, idx) \subseteq Positions(op.seq)
          /\ next_reads(op.seq, idx) \subseteq Positions(op.seq)
          /\ \A n \in Slots :
                /\ collect(op.seq, idx, n, -1).reads \subseteq Positions(op.seq)
                /\ collect_subparams(op.seq, idx, n, -1).reads \subseteq Positions(op.seq)
          /\ ~InRange(op.seq, idx) =>
                /\ arg_reads(op.seq, idx) = {}
                /\ \A default_v \in Defaults :
                      /\ param(op.seq, idx, default_v) = default_v
                      /\ collect1(op.seq, idx, default_v) = default_v
                /\ param_nonfinal(op.seq, idx) = FALSE
                /\ param_default(op.seq, idx) = TRUE
    /\ Read => mark.reads \subseteq Positions(op.seq)

\* Seventeen parameters arrived, sixteen are held, and next from UINT_MAX
\* has read nothing.
C28_Witness ==
    /\ Read /\ mark.accessor = "next" /\ mark.idx = UINT_MAX /\ mark.reads = {}
    /\ size(op.seq) = VTE_PARSER_ARG_MAX /\ op.seq[VTE_PARSER_ARG_MAX].nf

(***************************************************************************)
(* Vertical cursor moves: CNL, CPL, VPA beside CUU and CUD, on a screen    *)
(* that may have scrolled and may have a scrolling region.                 *)
(***************************************************************************)
CNL(t, seq) == move_cursor_down(set_cursor_column1(t, 1), collect1(seq, 0, 1))

CPL(t, seq) == move_cursor_up(set_cursor_column(t, 0), collect1(seq, 0, 1))

VPA(t, seq) ==
    set_cursor_row1(ensure_cursor_is_onscreen(t), collect1_minmax(seq, 0, 1, 1, m_row_count))

\* The lines that have scrolled off the top before the moves begin.
Scrolled == {0, 2}

\* The screen shows m_row_count lines, Scrolled ones have left it, and the
\* cursor is on its top line.
InitVertical ==
    /\ InitOffNormalScreen
    /\ op = [cmd |-> "none", seq |-> << >>]
    /\ tokeniser = cbegin(<< >>, ";")
    /\ mark = NoMark
    /\ focus = {}
    /\ \E delta \in Scrolled :
          m_normal_screen =
              [InitScreen EXCEPT !.insert_delta = delta,
                                 !.cursor = [row |-> delta, col |-> 0],
                                 !.row_data = [k \in 1..m_row_count |-> << >>]]

\* No parameter, or a count.
MoveSeqs == {<< >>, << F(2) >>}

DoCUUBy ==
    /\ \E seq \in MoveSeqs : Dispatch("CUU", seq, CUU(T, seq))
    /\ UNCHANGED << mark, focus >>

DoCUDBy ==
    /\ \E seq \in MoveSeqs : Dispatch("CUD", seq, CUD(T, seq))
    /\ UNCHANGED << mark, focus >>

DoCNL ==
    /\ \E seq \in MoveSeqs : Dispatch("CNL", seq, CNL(T, seq))
    /\ UNCHANGED << mark, focus >>

DoCPL ==
    /\ \E seq \in MoveSeqs : Dispatch("CPL", seq, CPL(T, seq))
    /\ UNCHANGED << mark, focus >>

DoVPA ==
    /\ \E seq \in MoveSeqs : Dispatch("VPA", seq, VPA(T, seq))
    /\ UNCHANGED << mark, focus >>

NextVertical ==
    \/ DoCUP \/ DoHVP \/ DoVPA \/ DoCUUBy \/ DoCUDBy \/ DoCNL \/ DoCPL
    \/ DoDECSTBM \/ DoDECOM

SpecVertical == InitVertical /\ [][NextVertical]_vars

\* The cursor's row, counted from the top line of the screen.
CursorLine == Screen(T).cursor.row - Screen(T).insert_delta

\* The first and the last screen line a relative move may reach from row:
\* the region's margin, or the screen's line for a cursor beyond the margin.
UpLimit(t, row) ==
    IF t.m_scrolling_restricted /\ row >= t.m_scrolling_region.start
    THEN t.m_scrolling_region.start ELSE 0

DownLimit(t, row) ==
    IF t.m_scrolling_restricted /\ row <= t.m_scrolling_region.end
    THEN t.m_scrolling_region.end ELSE m_row_count - 1

\* The count a move takes from its parameter.
MoveCount(seq) == CLAMP(collect1(seq, 0, 1), 1, m_row_count)

---------------------------------------------------------------------------
\* C29: a relative vertical move never moves the cursor the other way: CUU
\* and CPL never increase the cursor's row and CUD and CNL never decrease
\* it, also for a cursor above or below a restricted scrolling region; the
\* cursor stops at the region's margin, or at the top or bottom line of the
\* screen if it was already beyond the margin.
C29_MovesKeepDirection ==
    [][LET row == CursorLine
           now == CursorLine'
       IN  /\ op'.cmd \in {"CUU", "CPL"} =>
                /\ now <= row
                /\ now = MAX(row - MoveCount(op'.seq), UpLimit(T, row))
           /\ op'.cmd \in {"CUD", "CNL"} =>
                /\ now >= row
                /\ now = MIN(row + MoveCount(op'.seq), DownLimit(T, row))]_vars

(***************************************************************************)
(* RI.  It ends in adjust_adjustments(), which is defined in vte.cc and    *)
(* not in vteseq.cc; whether that call brings a cursor that RI has moved   *)
(* above insert_delta back onto the top line is therefore left open, and   *)
(* both outcomes are followed (snaps).                                     *)
(***************************************************************************)
adjust_adjustments(t, snaps) ==
    IF snaps
    THEN [t EXCEPT ![t.m_screen].cursor.row =
             MAX(Screen(t).cursor.row, Screen(t).insert_delta)]
    ELSE t

RI(t, seq, snaps) ==
    LET t1 == ensure_cursor_is_onscreen(t)
        s == Screen(t1)
        start == IF t1.m_scrolling_restricted
                 THEN t1.m_scrolling_region.start + s.insert_delta
                 ELSE s.insert_delta
        end == IF t1.m_scrolling_restricted
               THEN t1.m_scrolling_region.end + s.insert_delta
               ELSE start + m_row_count - 1
    IN  adjust_adjustments(
            IF s.cursor.row = start
            THEN ring_insert(ring_remove(t1, end), start, TRUE)
            ELSE [t1 EXCEPT ![t1.m_screen].cursor.row = s.cursor.row - 1],
            snaps)

\* RI, for as long as the cursor has not left the screen.
DoRI ==
    /\ CursorLine >= 0
    /\ \E snaps \in BOOLEAN : Dispatch("RI", << >>, RI(T, << >>, snaps))
    /\ UNCHANGED << mark, focus >>

NextReverse == NextVertical \/ DoRI

SpecReverse == InitVertical /\ [][NextReverse]_vars

\* The cursor's line is one of the lines of the screen.
CursorLineOnScreen == CursorLine \in 0..(m_row_count - 1)

\* The steps of NextReverse other than an RI whose cursor stays where the
\* code under vteseq.cc has put it keep the cursor on the screen.
CursorLineKept ==
    [][CursorLineOnScreen /\ ~(op'.cmd = "RI" /\ CursorLine' = CursorLine - 1)
           => CursorLineOnScreen']_vars

(***************************************************************************)
(* The cursor's column under the handlers that put the cursor back onto    *)
(* the screen first, and under the ones that leave a pending wrap alone.   *)
(***************************************************************************)
BS(t, seq) ==
    LET t1 == ensure_cursor_is_onscreen(t)
    IN  IF Screen(t1).cursor.col > 0
        THEN [t1 EXCEPT ![t1.m_screen].cursor.col = Screen(t1).cursor.col - 1]
        ELSE t1

line_feed(t) == cursor_down(ensure_cursor_is_onscreen(t))

LF(t, seq) == line_feed(t)

\* The handlers that call ensure_cursor_is_onscreen() before anything else.
Ensuring == {"BS", "CUB", "CUF", "CUU", "CUD", "VPA", "RI", "LF", "ECH", "EL", "ED"}

\* The parameters a command is sent with.
ColumnSeqs(cmd) ==
    CASE cmd \in {"EL", "ED"} -> {<< >>, << F(0) >>, << F(1) >>, << F(2) >>}
      [] cmd = "SGR" -> {<< >>, << F(0) >>}
      [] cmd \in {"BS", "RI", "LF"} -> {<< >>}
      [] OTHER -> {<< >>, << F(2) >>}

Handle(t, cmd, seq, snaps) ==
    CASE cmd = "BS" -> BS(t, seq)
      [] cmd = "CUB" -> CUB(t, seq)
      [] cmd = "CUF" -> CUF(t, seq)
      [] cmd = "CUU" -> CUU(t, seq)
      [] cmd = "CUD" -> CUD(t, seq)
      [] cmd = "VPA" -> VPA(t, seq)
      [] cmd = "RI" -> RI(t, seq, snaps)
      [] cmd = "LF" -> LF(t, seq)
      [] cmd = "ECH" -> ECH(t, seq)
      [] cmd = "EL" -> EL(t, seq)
      [] cmd = "ED" -> ED(t, seq)
      [] cmd = "SGR" -> SGR(t, seq)

\* How many scrolling line feeds a run has.
MaxScrolled == 1

Erasers == {"ECH", "EL", "ED"}

\* A run is followed up to its first erasing sequence.
DoColumnCmd(cmd) ==
    /\ mark.kind # "column"
    /\ cmd = "LF" => Screen(T).insert_delta < MaxScrolled
    /\ \E seq \in ColumnSeqs(cmd), snaps \in BOOLEAN :
          Dispatch(cmd, seq, Handle(T, cmd, seq, snaps))
    /\ mark' = IF cmd \in Erasers THEN [kind |-> "column"] ELSE mark
    /\ UNCHANGED focus

\* The child has printed a full line of narrow characters onto the top line:
\* the cursor is in the column behind the last one, the wrap pending.
InitColumn ==
    /\ InitOffNormalScreen
    /\ op = [cmd |-> "none", seq |-> << >>]
    /\ tokeniser = cbegin(<< >>, ";")
    /\ mark = NoMark
    /\ focus = {}
    /\ m_normal_screen =
           [InitScreen EXCEPT !.row_data = << [k \in 1..m_column_count |-> Narrow] >>,
                              !.cursor = [row |-> 0, col |-> m_column_count]]

NextColumn ==
    \/ DoColumnCmd("BS") \/ DoColumnCmd("CUB") \/ DoColumnCmd("CUF")
    \/ DoColumnCmd("CUU") \/ DoColumnCmd("CUD") \/ DoColumnCmd("VPA")
    \/ DoColumnCmd("RI") \/ DoColumnCmd("LF") \/ DoColumnCmd("ECH")
    \/ DoColumnCmd("EL") \/ DoColumnCmd("ED") \/ DoColumnCmd("SGR")

SpecColumn == InitColumn /\ [][NextColumn]_vars

\* One SGR parameter, every value from default to 108.
SgrOnes == {<< F(p) >> : p \in -1..108}

\* The erasing mode of an EL or ED.
EraseMode(seq) == param(seq, 0, -1)

\* The sequence in op put the cursor onto the screen before it acted.
EnsuredFirst(o) ==
    \/ o.cmd \in Ensuring \ {"EL", "ED"}
    \/ o.cmd = "EL" /\ EraseMode(o.seq) = 1
    \/ o.cmd = "ED" /\ EraseMode(o.seq) \in {-1, 0, 1}

\* The sequence in op has no immediate visible effect on the cursor.
LeavesWrap(o) ==
    \/ o.cmd = "SGR"
    \/ o.cmd = "EL" /\ EraseMode(o.seq) \in {-1, 0}

---------------------------------------------------------------------------
\* C31: the cursor column is always in [0, column_count]; BS, CUB, CUF, CUU,
\* CUD, VPA, RI, LF, ECH, EL 1, ED 0 and ED 1 leave it in
\* [0, column_count - 1]; SGR and EL 0 leave the cursor where it is, also in
\* the pending-wrap column column_count.  Stated of the sequence handled last
\* and of every sequence that may be handled next.
C31_CursorColumn ==
    /\ Screen(T).cursor.col \in 0..m_column_count
    /\ EnsuredFirst(op) => Screen(T).cursor.col \in 0..(m_column_count - 1)
    /\ \A cmd \in Ensuring \cup {"SGR"} :
          \A seq \in ColumnSeqs(cmd), snaps \in BOOLEAN :
             LET o == [cmd |-> cmd, seq |-> seq]
                 t == Handle(T, cmd, seq, snaps)
             IN  /\ Screen(t).cursor.col \in 0..m_column_count
                 /\ EnsuredFirst(o) => Screen(t).cursor.col \in 0..(m_column_count - 1)
                 /\ LeavesWrap(o) => Screen(t).cursor = Screen(T).cursor
    /\ \A seq \in SgrOnes : Screen(SGR(T, seq)).cursor = Screen(T).cursor
    /\ Screen(GRAPHIC(T, 65)).cursor.col \in 0..m_column_count
    /\ \A seq \in CursorSeqs : Screen(CUP(T, seq)).cursor.col \in 0..(m_column_count - 1)

\* EL 0 is handled with the cursor in the pending-wrap column.
C31_Witness ==
    /\ op = [cmd |-> "EL", seq |-> << F(0) >>]
    /\ Screen(T).cursor.col = m_column_count

---------------------------------------------------------------------------
\* The cursor of t is at home: in column 0, on the first line of the region
\* when origin mode is on and scrolling is restricted, and on the top line of
\* the screen otherwise.
Homed(t) ==
    /\ Screen(t).cursor.col = 0
    /\ Screen(t).cursor.row - Screen(t).insert_delta
           = IF t.m_origin_mode /\ t.m_scrolling_restricted
             THEN t.m_scrolling_region.start
             ELSE 0

\* C32: every DECSTBM, valid or invalid, homes the cursor: afterwards the
\* cursor column is 0 and the cursor row is the first row of the new region
\* when origin mode is on and scrolling is restricted, and screen row 0
\* otherwise.
C32_RegionHomesCursor ==
    /\ op.cmd = "DECSTBM" => Homed(T)
    /\ \A seq \in RegionParams : Homed(DECSTBM(T, seq))

\* A region below the top line is set in origin mode, from a cursor that was
\* elsewhere: the cursor is on the region's first line.
C32_Witness ==
    /\ op.cmd = "DECSTBM"
    /\ m_origin_mode /\ m_scrolling_restricted /\ m_scrolling_region.start > 0
    /\ CursorLine = m_scrolling_region.start
    /\ Screen(T).insert_delta > 0

(***************************************************************************)
(* The order of effects in decset(): the hooks and the write of "Change    *)
(* the current setting to match the new/saved value", then the switch of   *)
(* "Do whatever's necessary when the setting changes".                     *)
(***************************************************************************)
Effect(kind, name) == [kind |-> kind, name |-> name]

\* if (key.set && set) ...; if (bvalue) ... else if (ivalue) ...;
\* if (key.reset && !set) ...: what runs, in the order of the statements.
apply_effects_written_first(key, set) ==
    (IF key.boffset # "" THEN << Effect("write", key.boffset) >>
     ELSE IF key.ioffset # "" THEN << Effect("write", key.ioffset) >>
     ELSE << >>)
    \o (IF key.set # "" /\ set THEN << Effect("hook", key.set) >> ELSE << >>)
    \o (IF key.reset # "" /\ ~set THEN << Effect("hook", key.reset) >> ELSE << >>)

apply_effects(key, set) ==
    (IF key.set # "" /\ set THEN << Effect("hook", key.set) >> ELSE << >>)
    \o (IF key.boffset # "" THEN << Effect("write", key.boffset) >>
        ELSE IF key.ioffset # "" THEN << Effect("write", key.ioffset) >>
        ELSE << >>)
    \o (IF key.reset # "" /\ ~set THEN << Effect("hook", key.reset) >> ELSE << >>)

\* switch (setting): the calls of each case, in the order of the statements.
switch_effects(t, setting, set) ==
    CASE setting = 3 ->
             IF t.m_deccolm_mode
             THEN << Effect("switch", "emit_resize_window"),
                     Effect("switch", "clear_screen"),
                     Effect("switch", "home_cursor") >>
             ELSE << >>
      [] setting = 5 -> << Effect("switch", "invalidate_all") >>
      [] setting = 6 -> << Effect("switch", "home_cursor") >>
      [] setting \in {47, 1047, 1049} ->
             (IF set THEN << Effect("switch", "clear_screen") >> ELSE << >>)
             \o << Effect("switch", "gtk_adjustment_set_value"),
                   Effect("switch", "set_scrollback_lines"),
                   Effect("switch", "queue_contents_changed"),
                   Effect("switch", "invalidate_all") >>
      [] setting \in {9, 1000, 1001, 1002, 1003} ->
             << Effect("switch", "apply_mouse_cursor") >>
      [] OTHER -> << >>

\* What one call of decset() that does not save runs, in order.
decset_effects(t, setting, restore, set) ==
    IF setting \notin DOMAIN settings THEN << >>
    ELSE
        LET key == settings[setting]
            ignore == key.fvalue = key.tvalue /\ key.set = "" /\ key.reset = ""
            value == IF ignore THEN set
                     ELSE decset_value(t, key, setting, restore, FALSE, set)
        IN  (IF ignore THEN << >> ELSE apply_effects(key, value))
            \o switch_effects(t, setting, value)

\* The terminal after one effect of a decset() that works with `set'.
perform(t, key, set, effect) ==
    CASE effect.kind = "hook" -> Call(t, effect.name)
      [] effect.kind = "write" ->
             [t EXCEPT ![effect.name] =
                 IF effect.name = key.boffset THEN set
                 ELSE IF set THEN key.tvalue ELSE key.fvalue]
      [] effect.name = "emit_resize_window" ->
             [t EXCEPT !.resize_window = IF set THEN 132 ELSE 80]
      [] effect.name = "clear_screen" -> clear_screen(t)
      [] effect.name = "home_cursor" -> home_cursor(t)
      [] OTHER -> t

RECURSIVE performed(_, _, _, _)
performed(t, key, set, effects) ==
    IF effects = << >> THEN t
    ELSE performed(perform(t, key, set, Head(effects)), key, set, Tail(effects))

\* The numbers a child may name: every setting of the table, and one that
\* is not in it.
Named == DOMAIN settings \cup {4}

\* Hooks by the side of the write they are on, and the switch after all.
InOrder(effects, set) ==
    \A i, j \in DOMAIN effects :
        /\ effects[i].kind = "hook" /\ effects[j].kind = "write"
               => IF set THEN i < j ELSE j < i
        /\ effects[i].kind # "switch" /\ effects[j].kind = "switch" => i < j

DECSC(t, seq) == save_cursor(t)

DECRC(t, seq) == restore_cursor(t)

\* DECSC or DECSET 1048, sent to the alternate screen.
DoSaveOnAlternate ==
    /\ m_screen = "m_alternate_screen"
    /\ \/ Dispatch("DECSC", << >>, DECSC(T, << >>))
       \/ Dispatch("SM_DEC", << F(1048) >>, SM_DEC(T, << F(1048) >>))
    /\ KeepMark
    /\ UNCHANGED focus

\* DECRC or DECRST 1048, sent to the alternate screen.
DoRestoreOnAlternate ==
    /\ m_screen = "m_alternate_screen"
    /\ \/ Dispatch("DECRC", << >>, DECRC(T, << >>))
       \/ Dispatch("RM_DEC", << F(1048) >>, RM_DEC(T, << F(1048) >>))
    /\ KeepMark
    /\ UNCHANGED focus

NextAltSave ==
    \/ DoEnterAlternate \/ DoLeaveAlternate \/ DoCUPAlt
    \/ DoSaveOnAlternate \/ DoRestoreOnAlternate

SpecAltSave == Init /\ [][NextAltSave]_vars

\* The cursor of the active screen as a slot holds it.
CursorNow(t) == [row |-> ScreenRow(t), col |-> Screen(t).cursor.col]

Other(screen) ==
    IF screen = "m_normal_screen" THEN "m_alternate_screen" ELSE "m_normal_screen"

\* C34: DECSET 1049 saves the cursor into the slot of the screen that is
\* active when it is sent and then makes the alternate screen the active
\* one; DECRST 1049 makes the normal screen the active one and then restores
\* the cursor from the normal screen's slot.  So between the two, whatever
\* is saved and restored on the alternate screen by DECSC, DECRC and mode
\* 1048, the normal screen's slot holds the cursor of entry, and that is
\* the cursor on leaving (the pending-wrap column comes back as the last
\* column).
C34_AlternateSavesApart ==
    /\ LET t == SM_DEC(T, << F(1049) >>)
       IN  /\ t.m_screen = "m_alternate_screen"
           /\ t[T.m_screen].saved.cursor = CursorNow(T)
           /\ T.m_screen = "m_normal_screen"
                  => t.m_alternate_screen.saved = T.m_alternate_screen.saved
    /\ LET t == RM_DEC(T, << F(1049) >>)
           saved == T.m_normal_screen.saved.cursor
       IN  /\ t.m_screen = "m_normal_screen"
           /\ t.m_normal_screen.saved = T.m_normal_screen.saved
           /\ t.m_alternate_screen.saved = T.m_alternate_screen.saved
           /\ CursorNow(t) = [row |-> CLAMP(saved.row, 0, m_row_count - 1),
                              col |-> MIN(saved.col, m_column_count - 1)]
    /\ mark.kind = "screen" /\ ~mark.left
           => /\ m_screen = "m_alternate_screen"
              /\ m_normal_screen.saved.cursor = [row |-> mark.row, col |-> mark.col]
              /\ \A t \in {DECSC(T, << >>), DECRC(T, << >>),
                           SM_DEC(T, << F(1048) >>), RM_DEC(T, << F(1048) >>)} :
                     t.m_normal_screen.saved = T.m_normal_screen.saved
    /\ Left1049
           => CursorNow(T) = [row |-> mark.row,
                              col |-> MIN(mark.col, m_column_count - 1)]

\* DECRST 1049 has acted after the cursor was saved on the alternate screen
\* at another place than the one it had on entry.
C34_Witness ==
    /\ Left1049
    /\ m_alternate_screen.saved.cursor # m_normal_screen.saved.cursor
    /\ m_alternate_screen.saved.cursor.col > 0
    /\ mark.col > 0
    /\ CursorNow(T) = m_normal_screen.saved.cursor

(***************************************************************************)
(* Tab stops: HT, HTS and TBC.                                             *)
(***************************************************************************)
VTE_TAB_WIDTH_MAX == 15

\* get_tabstop(column), set_tabstop(column), clear_tabstop(column): nothing
\* without a table.
get_tabstop(t, column) == t.m_tabstops.table /\ column \in t.m_tabstops.stops

set_tabstop(t, column) ==
    IF t.m_tabstops.table
    THEN [t EXCEPT !.m_tabstops.stops = @ \cup {column}]
    ELSE t

clear_tabstop(t, column) ==
    IF t.m_tabstops.table
    THEN [t EXCEPT !.m_tabstops.stops = @ \ {column}]
    ELSE t

\* for (newcol++; newcol < VTE_TAB_MAX; newcol++) if (get_tabstop(newcol)) break;
next_tabstop(t, col) ==
    LET found == {c \in (col + 1)..(VTE_TAB_MAX - 1) : get_tabstop(t, c)}
    IN  IF found # {} THEN CHOOSE c \in found : \A d \in found : c <= d
        ELSE MAX(col + 1, VTE_TAB_MAX)

\* The row of move_cursor_tab() after the fill and the smart tab.
tab_row(row, col, newcol) ==
    LET old_len == Len(row)
        filled == _vte_row_data_fill(row, basic_cell, newcol)
    IN  IF col >= old_len /\ newcol - col <= VTE_TAB_WIDTH_MAX
        THEN [i \in 1..Len(filled) |->
                 IF i = col + 1
                 THEN [filled[i] EXCEPT !.c = 9, !.attr.columns = newcol - col]
                 ELSE IF i > col + 1 /\ i <= newcol
                 THEN [filled[i] EXCEPT !.c = 9, !.attr.columns = 1,
                                        !.attr.fragment = TRUE]
                 ELSE filled[i]]
        ELSE filled

move_cursor_tab(t) ==
    LET col == Screen(t).cursor.col
        stop == IF t.m_tabstops.table THEN next_tabstop(t, col) ELSE col
        newcol == IF stop >= m_column_count THEN m_column_count - 1 ELSE stop
        t1 == ensure_row(t)
        i == Screen(t1).cursor.row - Screen(t1).insert_delta + 1
    IN  IF col < newcol
        THEN [t1 EXCEPT ![t1.m_screen].row_data[i] = tab_row(@, col, newcol),
                        ![t1.m_screen].cursor.col = newcol]
        ELSE t

HT(t, seq) == move_cursor_tab(t)

HTS(t, seq) ==
    LET t1 == IF t.m_tabstops = nullptr
              THEN [t EXCEPT !.m_tabstops = [table |-> TRUE, stops |-> {}]]
              ELSE t
    IN  set_tabstop(t1, Screen(t1).cursor.col)

TBC(t, seq) ==
    LET param0 == collect1(seq, 0, 0)
    IN  CASE param0 = 0 -> clear_tabstop(t, Screen(t).cursor.col)
          [] param0 = 3 -> [t EXCEPT !.m_tabstops = nullptr]
          [] OTHER -> t

ClearSeqs == {<< >>, << F(0) >>, << F(1) >>, << F(3) >>}

DoHT ==
    /\ Dispatch("HT", << >>, HT(T, << >>))
    /\ UNCHANGED << mark, focus >>

DoHTS ==
    /\ Dispatch("HTS", << >>, HTS(T, << >>))
    /\ UNCHANGED << mark, focus >>

DoTBC ==
    /\ \E seq \in ClearSeqs : Dispatch("TBC", seq, TBC(T, seq))
    /\ UNCHANGED << mark, focus >>

\* The child sets and clears tab stops, moves the cursor and tabs.
NextTabs == DoHT \/ DoHTS \/ DoTBC \/ DoCUF \/ DoCUB \/ DoCUPHome

SpecTabs == Init /\ [][NextTabs]_vars

\* The columns of the screen right of col that are tab stops.
StopsRightOf(t, col) ==
    {c \in (col + 1)..(m_column_count - 1) : get_tabstop(t, c)}

\* C35: HT takes the cursor to the first tab stop right of it, and to the
\* right-most column when no tab stop is right of it, as after TBC 3; it
\* never takes the cursor left or past the right-most column.
C35_TabToNextStop ==
    [][op'.cmd = "HT" =>
           LET col == Screen(T).cursor.col
               now == Screen(T).cursor.col'
               stops == StopsRightOf(T, col)
           IN  /\ now >= col
               /\ now <= m_column_count - 1
               /\ now = IF stops # {}
                        THEN CHOOSE c \in stops : \A d \in stops : c <= d
                        ELSE m_column_count - 1]_vars

\* The same where m_tabstops points to a table.
TabToNextStopWithTable ==
    [][op'.cmd = "HT" /\ m_tabstops.table =>
           LET col == Screen(T).cursor.col
               now == Screen(T).cursor.col'
               stops == StopsRightOf(T, col)
           IN  /\ now >= col
               /\ now <= m_column_count - 1
               /\ now = IF stops # {}
                        THEN CHOOSE c \in stops : \A d \in stops : c <= d
                        ELSE m_column_count - 1]_vars

\* HT without a table leaves the cursor where it is.
TabWithoutTableStays ==
    [][op'.cmd = "HT" /\ ~m_tabstops.table
           => Screen(T).cursor.col' = Screen(T).cursor.col]_vars

(***************************************************************************)
(* The loop of SGR() over the parameter blocks.                            *)
(***************************************************************************)
MaxSgrParams == 5

\* The colour introducer and the two colour types, which are colour
\* components as well, each followed by ';' or by ':'.
SgrChoices == {F(38), N(38), F(2), N(2), F(5), N(5)}

RECURSIVE SgrListsOf(_)
SgrListsOf(n) ==
    IF n = 0 THEN {<< >>}
    ELSE LET shorter == SgrListsOf(n - 1)
         IN  shorter \cup {l \o << a >> : l \in {s \in shorter : Len(s) = n - 1},
                                          a \in SgrChoices}

\* n parameters: colour introducers, all followed by ':', or 38;5;300
\* over and over.
SgrLong(n, kind) ==
    [i \in 1..n |->
        CASE kind = "introducers" -> F(38)
          [] kind = "colons" -> N(38)
          [] OTHER -> IF i % 3 = 1 THEN F(38) ELSE IF i % 3 = 2 THEN F(5) ELSE F(300)]

SgrArriving ==
    SgrListsOf(MaxSgrParams) \cup SgrSeqs
        \cup {SgrLong(n, kind) : n \in (VTE_PARSER_ARG_MAX - 1)..(VTE_PARSER_ARG_MAX + 1),
                                 kind \in {"introducers", "colons", "indexed"}}

\* The indices the loop of SGR() has in i at "i < n_params", in order, as
\* long as that holds and for at most `turns' turns; ended tells whether the
\* loop was left.
RECURSIVE sgr_visits(_, _, _, _)
sgr_visits(t, seq, i, turns) ==
    IF i >= size(seq) THEN [visited |-> << >>, ended |-> TRUE]
    ELSE IF turns = 0 THEN [visited |-> << >>, ended |-> FALSE]
    ELSE LET r == sgr_param(t, seq, i)
             rest == sgr_visits(r.t, seq, next(seq, r.i), turns - 1)
         IN  [visited |-> << i >> \o rest.visited, ended |-> rest.ended]

\* A run is one parameter list and the SGR that is handed it.
DoParseSgr ==
    /\ op.cmd \notin {"parse", "SGR"}
    /\ \E params \in SgrArriving : Dispatch("parse", vte_parser_args(params), T)
    /\ mark' = NoMark
    /\ UNCHANGED focus

DoSGRParsed ==
    /\ op.cmd = "parse"
    /\ Dispatch("SGR", op.seq, SGR(T, op.seq))
    /\ mark' = [kind |-> "sgr",
                visited |-> sgr_visits(T, op.seq, 0, size(op.seq)).visited]
    /\ UNCHANGED focus

NextSgrLoop == DoParseSgr \/ DoSGRParsed

SpecSgrLoop == Init /\ [][NextSgrLoop]_vars

\* The indices next() is called with: those of a list and past it, and the
\* last unsigned int.
NextIndices == (0..(VTE_PARSER_ARG_MAX + 2)) \cup {UINT_MAX - 1, UINT_MAX}

\* next(idx) for idx < size() is just past the final parameter of idx's block.
NextPastBlock(seq) ==
    \A idx \in 0..(size(seq) - 1) :
        /\ next(seq, idx) = BlockLast(seq, idx) + 1
        /\ \A k \in idx..(next(seq, idx) - 2) : Stored(seq, k).nf
        /\ InRange(seq, next(seq, idx) - 1) => ~Stored(seq, next(seq, idx) - 1).nf

\* The loop of SGR() is left after at most size() turns, and the indices it
\* visits go up, each the start of a block.
SgrLoopEnds(t, seq) ==
    LET v == sgr_visits(t, seq, 0, size(seq))
    IN  /\ v.ended
        /\ Len(v.visited) <= size(seq)
        /\ \A k \in DOMAIN v.visited :
               /\ k > 1 => v.visited[k - 1] < v.visited[k]
               /\ v.visited[k] = 0 \/ ~Stored(seq, v.visited[k] - 1).nf
        /\ \A k, l \in DOMAIN v.visited :
               k # l => BlockLast(seq, v.visited[k]) # BlockLast(seq, v.visited[l])

C37_FailedNumberIsMinusOne ==
    \A i \in 1..Len(Seen) : ~Seen[i].number.ok => Seen[i].number.v = -1

\* What a failed number() does leave: the value of the digits before the
\* character that is no digit, or the first value above the range.
FailedNumberLeavesDigits ==
    \A i \in 1..Len(Seen) :
        ~Seen[i].number.ok
            => /\ Seen[i].number.v >= 0
               /\ Seen[i].number.v <= 65535 * 10 + 9
               /\ Seen[i].token[1] = "a" => Seen[i].number.v = 0

(***************************************************************************)
(* The amounts of ICH, DCH, REP and ECH.                                   *)
(***************************************************************************)
\* seq.collect1(0, 1, 1, int(m_column_count - m_screen->cursor.col)): the
\* count of ICH, DCH and REP.
remaining_count(t, seq) ==
    collect1_minmax(seq, 0, 1, 1, m_column_count - Screen(t).cursor.col)

AmountSeqs == Params1(EraseCounts \cup {65535})

\* ICH, DCH and REP act on at most the cells from the cursor to the end of
\* the line, and on none from the pending-wrap column.
AmountsRemain ==
    \A seq \in AmountSeqs :
        /\ remaining_count(T, seq) >= 0
        /\ remaining_count(T, seq) <= m_column_count - Screen(T).cursor.col
        /\ Screen(T).cursor.col = m_column_count => remaining_count(T, seq) = 0
        /\ DCH(T, seq) = delete_characters(T, remaining_count(T, seq))

\* C38: ICH, DCH and REP act on at most column_count - cursor.col cells,
\* none when the cursor is in the pending-wrap column, and after ECH n, for
\* any n, the cursor's row holds at most column_count cells.
C38_AmountsClamped ==
    /\ AmountsRemain
    /\ op.cmd = "ECH" => Len(CursorRowData(T)) <= m_column_count

\* What ECH does leave: a row that reaches the count past the cursor, the
\* count being the parameter, 1 for none or zero.
ErasedRowReaches ==
    op.cmd = "ECH" =>
        LET count == collect1_minmax(op.seq, 0, 1, 1, 65535)
        IN  /\ Len(CursorRowData(T)) >= Screen(T).cursor.col + count
            /\ Len(CursorRowData(T)) <= m_column_count + count

(***************************************************************************)
(* The mouse tracking modes.                                               *)
(***************************************************************************)
MouseModes == {9, 1000, 1001, 1002, 1003}

\* The mark keeps the mouse tracking mode before the sequence, and whether
\* the setting of the sequence was saved as on.
MouseMark(s) ==
    [kind |-> "mouse", before |-> m_mouse_tracking_mode,
     saved |-> dec_saved_lookup(T, s)]

DoSetMouse ==
    /\ \E s \in MouseModes :
           /\ Dispatch("SM_DEC", << F(s) >>, SM_DEC(T, << F(s) >>))
           /\ mark' = MouseMark(s)
    /\ UNCHANGED focus

DoResetMouse ==
    /\ \E s \in MouseModes :
           /\ Dispatch("RM_DEC", << F(s) >>, RM_DEC(T, << F(s) >>))
           /\ mark' = MouseMark(s)
    /\ UNCHANGED focus

DoSaveMouse ==
    /\ \E s \in MouseModes :
           /\ Dispatch("XTERM_SPM", << F(s) >>, XTERM_SPM(T, << F(s) >>))
           /\ mark' = MouseMark(s)
    /\ UNCHANGED focus

DoRestoreMouse ==
    /\ \E s \in MouseModes :
           /\ Dispatch("XTERM_RPM", << F(s) >>, XTERM_RPM(T, << F(s) >>))
           /\ mark' = MouseMark(s)
    /\ UNCHANGED focus

NextMouse == DoSetMouse \/ DoResetMouse \/ DoSaveMouse \/ DoRestoreMouse

SpecMouse == Init /\ [][NextMouse]_vars

\* The mouse tracking modes that are on.
ActiveMouse(t) == {s \in MouseModes : ModeOn(t, s)}

\* C39: the mouse tracking modes 9, 1000, 1001, 1002 and 1003 are one
\* variable: at most one of them is on, after DECSET the one just set, and
\* after DECRST of any of them, or a restore of one that was saved as off or
\* never saved, none, whichever of them was on before.  A restore of one
\* saved as on turns that one on, and a save changes none.
C39_MouseModesShareOne ==
    /\ Cardinality(ActiveMouse(T)) <= 1
    /\ mark.kind = "mouse" =>
           LET s == op.seq[1].v
           IN  /\ op.cmd = "SM_DEC" => ActiveMouse(T) = {s}
               /\ op.cmd = "RM_DEC" => ActiveMouse(T) = {}
               /\ op.cmd = "XTERM_RPM" =>
                      ActiveMouse(T) = IF mark.saved THEN {s} ELSE {}
               /\ op.cmd = "XTERM_SPM" => m_mouse_tracking_mode = mark.before
    /\ \A s, r \in MouseModes :
           /\ ActiveMouse(SM_DEC(T, << F(s), F(r) >>)) = {r}
           /\ ActiveMouse(RM_DEC(SM_DEC(T, << F(s) >>), << F(r) >>)) = {}

\* DECRST 9 has acted while mode 1003 was the one that was on.
C39_Witness ==
    /\ op = [cmd |-> "RM_DEC", seq |-> << F(9) >>]
    /\ mark.kind = "mouse"
    /\ mark.before = MOUSE_TRACKING_ALL_MOTION_TRACKING
    /\ ActiveMouse(T) = {}

====
